---- MODULE Spec2Model ----
(***************************************************************************)
(* Model of the batch runner of scripts/process_papers.py: main() submits  *)
(* one process_single_paper call per PDF to a ThreadPoolExecutor, every    *)
(* call is wrapped by tenacity's @retry(stop_after_attempt(3), ...), and   *)
(* main collects the futures with as_completed into the list `results`.    *)
(***************************************************************************)
EXTENDS Integers, Sequences, FiniteSets, TLC

\* ---------------------------------------------------------------- bounds
NumPapers == 2            \* number of PDF files found by glob('*.pdf')
MaxWorkersBound == 2      \* max_workers ranges over 1..MaxWorkersBound

\* ------------------------------------------------------ program constants
stop_after_attempt == 3   \* @retry(stop=stop_after_attempt(3))
provider == "anthropic"   \* main(..., provider='anthropic')

pdf_files == 1..NumPapers

\* Injected behaviour of the collaborators during one attempt.
ExtInputs == {"ok", "fail"}                          \* pypdf reads / fails
IoInputs == {"ok", "mkdir_raise", "open_raise"}      \* local file system
RespInputs == {"json_ok", "json_bad", "api_exception"} \* remote LLM call

VARIABLES
  max_workers,     \* ThreadPoolExecutor(max_workers=...)
  main_pc,         \* position of main: "submit", "collect", "done"
  submitted,       \* number of executor.submit calls made so far
  work_queue,      \* the executor's FIFO of work items not yet taken
  thread_of,       \* per unit: the pool thread running it, 0 when none
  ustate,          \* per unit: "unsubmitted", "queued", "running",
                   \*   "backoff", "finished" (future done), "collected"
  attempt_number,  \* per unit: tenacity's attempt_number (worker invocations)
  ended,           \* per unit: number of worker invocations that have ended
  raised,          \* per unit: number of invocations that raised
  last_exc,        \* per unit: type of the exception raised last, or "none"
  returned,        \* per unit: status of the record returned last, or "none"
  future,          \* per unit: the future's outcome once it is done
  results          \* main's list `results`

VARIABLES
  rep_pc,          \* main after the pool: "idle", "csv", "json", "metrics",
                   \* "done"
  rep_results,     \* main's list `results` with the records' contents
  worker_results,  \* history: the records as the workers returned them
  csv_rows,        \* the rows written by save_results_to_csv
  json_file,       \* the list dumped to paper_summaries_<provider>.json
  duration,        \* end_time - start_time, in seconds
  metrics          \* what track_metrics returned or raised

report_vars == <<rep_pc, rep_results, worker_results, csv_rows, json_file,
                 duration, metrics>>

\* the state of the pool and of the collection loop
pool_vars == <<max_workers, main_pc, submitted, work_queue, thread_of,
               ustate, attempt_number, ended, raised, last_exc, returned,
               future, results>>

\* the state of the batch runner
runner_vars == <<pool_vars, report_vars>>

VARIABLES
  qv_pc,           \* quality validator: "idle", "input", "done"
  qv_record,       \* the extraction record handed to _validate_extraction
  qv_out           \* what _validate_extraction returned or raised

qv_vars == <<qv_pc, qv_record, qv_out>>

VARIABLES
  norm_pc,         \* normalizer: "idle", "input", "once", "twice"
  name_in,         \* the raw name handed to normalize_biomarker_name
  norm_once,       \* normalize_biomarker_name(name_in)
  norm_twice       \* normalize_biomarker_name(norm_once)

norm_vars == <<norm_pc, name_in, norm_once, norm_twice>>

VARIABLES
  biomarkers,      \* BiomarkerAggregator.biomarkers: key -> entity
  bio_order,       \* insertion order of the keys of biomarkers
  clock,           \* logical time of datetime.now()
  ingested         \* history: the paper results handed to add_paper_results

VARIABLES
  q_call,          \* the last call of a reader: [op, arg], <<>> before any
  q_out,           \* what that call handed to the reader
  q_shared         \* the parts of q_out that are objects of the index

reader_vars == <<q_call, q_out, q_shared>>

agg_vars == <<biomarkers, bio_order, clock, ingested, reader_vars>>

VARIABLES
  cfg_pc,          \* config.py: "idle", "validate", "validated"
  config,          \* the settings of config.py that validate_config reads
  cfg_errors       \* the list validate_config returned

cfg_vars == <<cfg_pc, config, cfg_errors>>

VARIABLES
  processing,      \* PipelineGUI.processing
  stop_button      \* state of the GUI's stop button: "normal", "disabled"

gui_vars == <<processing, stop_button>>

VARIABLES
  lam_pc,               \* batch_handler: "idle", "loop", "returned"
  lam_event,            \* event['Records'] with what happens to each record
  lam_i,                \* number of records the loop has gone through
  batch_item_failures,  \* the list batch_item_failures
  lam_uploaded          \* results objects written to RESULTS_BUCKET

lam_vars == <<lam_pc, lam_event, lam_i, batch_item_failures, lam_uploaded>>

\* what lies around the pipeline: configuration, GUI, Lambda entry points
ext_vars == <<cfg_vars, gui_vars, lam_vars>>

vars == <<runner_vars, qv_vars, norm_vars, agg_vars, ext_vars>>

CfgIdle == cfg_pc = "idle" /\ config = <<>> /\ cfg_errors = <<>>
GuiIdle == processing = FALSE /\ stop_button = "disabled"
LamIdle ==
  /\ lam_pc = "idle" /\ lam_event = <<>> /\ lam_i = 0
  /\ batch_item_failures = <<>> /\ lam_uploaded = {}
ExtIdle == CfgIdle /\ GuiIdle /\ LamIdle

\* the components a batch run of main does not touch
QVIdle == qv_pc = "idle" /\ qv_record = <<>> /\ qv_out = <<>>
NormIdle ==
  norm_pc = "idle" /\ name_in = <<>> /\ norm_once = <<>> /\ norm_twice = <<>>
ReaderIdle ==
  q_call = <<>> /\ q_out = <<>> /\ q_shared = {}
AggIdle ==
  /\ biomarkers = <<>> /\ bio_order = <<>> /\ clock = 0 /\ ingested = <<>>
  /\ ReaderIdle
ReportIdle ==
  /\ rep_pc = "idle" /\ rep_results = <<>> /\ worker_results = <<>>
  /\ csv_rows = <<>> /\ json_file = <<>> /\ duration = 0 /\ metrics = <<>>
RunnerFrame == UNCHANGED <<qv_vars, norm_vars, ext_vars, agg_vars, report_vars>>

NoFuture == [kind |-> "pending"]

\* ------------------------------------------------------- pure functions

\* extract_text_from_pdf: every exception is caught and turned into a record
extract_text_from_pdf(ext) ==
  IF ext = "ok"
  THEN [text |-> "text", num_pages |-> 1, success |-> TRUE, error |-> "None"]
  ELSE [text |-> "", num_pages |-> 0, success |-> FALSE, error |-> "PdfReadError"]

\* summarize_paper_claude: the try block around the remote call and json.loads
summarize_paper_claude(filename, resp) ==
  IF resp = "json_ok"
  THEN [filename |-> filename, status |-> "success",
        chunks_processed |-> 1, api_provider |-> "anthropic"]
  ELSE IF resp = "json_bad"
  THEN [filename |-> filename, status |-> "json_error",
        error |-> "JSONDecodeError", raw_response |-> "raw",
        api_provider |-> "anthropic"]
  ELSE [filename |-> filename, status |-> "api_error",
        error |-> "APIError", api_provider |-> "anthropic"]

\* summarize_paper: dispatch on the provider (only anthropic is configured)
summarize_paper(filename, resp) == summarize_paper_claude(filename, resp)

Return(value) == [kind |-> "return", value |-> value]
Raise(exc) == [kind |-> "raise", exc |-> exc]

\* One invocation of the body of process_single_paper.
process_single_paper(filename, ext, io, resp) ==
  LET extraction_result == extract_text_from_pdf(ext) IN
  IF ~extraction_result.success
  THEN Return([filename |-> filename, status |-> "extraction_failed",
               error |-> extraction_result.error])
  ELSE IF io = "mkdir_raise" THEN Raise("OSError")
  ELSE IF io = "open_raise" THEN Raise("PermissionError")
  ELSE LET summary_result == summarize_paper(filename, resp) IN
       Return([num_pages |-> extraction_result.num_pages,
               text_length |-> Len(extraction_result.text)] @@ summary_result)

\* the exception of an attempt's outcome, "none" when it returned
Exception(outcome) == IF outcome.kind = "raise" THEN outcome.exc ELSE "none"

\* the status of the record an attempt returned, "none" when it raised
Returned(outcome) ==
  IF outcome.kind = "return" THEN outcome.value.status ELSE "none"

\* (mutation of ShouldRetry: a returned failure record is retried as well)
ShouldRetry_FailedRecord(outcome) ==
  \/ outcome.kind = "raise"
  \/ outcome.kind = "return" /\ outcome.value.status # "success"

\* tenacity: the default retry predicate retries on any raised exception
ShouldRetry(outcome) == outcome.kind = "raise"

\* (mutation of ShouldStop: allows one attempt more)
ShouldStop_OneLate(n) == n >= stop_after_attempt + 1

\* (mutation of ShouldStop: gives up one attempt early)
ShouldStop_OneEarly(n) == n >= stop_after_attempt - 1

\* tenacity: stop_after_attempt(3)
ShouldStop(n) == n >= stop_after_attempt

\* tenacity raises RetryError(last_attempt) once the attempts are used up
RetryError(exc) == [type |-> "RetryError", last_attempt |-> exc]

\* str(e) of line 299: "RetryError[<Future ... raised ExcType>]" names the
\* class of the last attempt's exception and nothing else of it
str_RetryError(e) == <<e.type, e.last_attempt>>

\* the except branch of main's collection loop
processing_error(filename, e) ==
  [filename |-> filename, status |-> "processing_error",
   error |-> e, api_provider |-> provider]

\* ------------------------------------------------------------ the state

Active == {u \in pdf_files : ustate[u] \in {"running", "backoff"}}

Init ==
  /\ max_workers \in 1..MaxWorkersBound
  /\ main_pc = "submit"
  /\ submitted = 0
  /\ work_queue = <<>>
  /\ thread_of = [u \in pdf_files |-> 0]
  /\ ustate = [u \in pdf_files |-> "unsubmitted"]
  /\ attempt_number = [u \in pdf_files |-> 0]
  /\ ended = [u \in pdf_files |-> 0]
  /\ raised = [u \in pdf_files |-> 0]
  /\ last_exc = [u \in pdf_files |-> "none"]
  /\ returned = [u \in pdf_files |-> "none"]
  /\ future = [u \in pdf_files |-> NoFuture]
  /\ results = <<>>
  /\ QVIdle /\ NormIdle /\ ExtIdle /\ AggIdle /\ ReportIdle

\* executor.submit(process_single_paper, pdf_path, ...) for the next pdf
Submit ==
  /\ main_pc = "submit"
  /\ submitted < NumPapers
  /\ submitted' = submitted + 1
  /\ work_queue' = Append(work_queue, submitted + 1)
  /\ ustate' = [ustate EXCEPT ![submitted + 1] = "queued"]
  /\ main_pc' = IF submitted + 1 = NumPapers THEN "collect" ELSE "submit"
  /\ UNCHANGED <<max_workers, thread_of, attempt_number, ended, raised,
                 last_exc, returned, future, results>>
  /\ RunnerFrame

\* (mutation of ThreadIdle: a thread takes work while it still runs some)
ThreadIdle_Always(t) == t \in 1..max_workers

\* pool thread t exists and is running no work item
ThreadIdle(t) == t \in 1..max_workers /\ \A v \in pdf_files : thread_of[v] # t

\* Pool thread t takes the head of the queue and calls the decorated
\* process_single_paper: the first attempt starts.
WorkerTake(u, t) ==
  /\ work_queue # <<>>
  /\ Head(work_queue) = u
  /\ ThreadIdle(t)
  /\ work_queue' = Tail(work_queue)
  /\ thread_of' = [thread_of EXCEPT ![u] = t]
  /\ ustate' = [ustate EXCEPT ![u] = "running"]
  /\ attempt_number' = [attempt_number EXCEPT ![u] = 1]
  /\ UNCHANGED <<max_workers, main_pc, submitted, ended, raised, last_exc,
                 returned, future, results>>
  /\ RunnerFrame

\* (mutation of ThreadRunnable: a backoff sleep holds a lock all attempts need)
ThreadRunnable_GlobalSleep(u) ==
  /\ ustate[u] = "running"
  /\ \A v \in pdf_files : ustate[v] # "backoff"

\* the thread of unit u can run its current attempt to its end
ThreadRunnable(u) == ustate[u] = "running"

\* The running attempt of u ends; tenacity decides what follows.
AttemptEnd(u, ext, io, resp) ==
  /\ ThreadRunnable(u)
  /\ LET outcome == process_single_paper(u, ext, io, resp) IN
     /\ ended' = [ended EXCEPT ![u] = @ + 1]
     /\ IF ShouldRetry(outcome)
        THEN /\ raised' = [raised EXCEPT ![u] = @ + 1]
             /\ last_exc' = [last_exc EXCEPT ![u] = Exception(outcome)]
             /\ returned' = [returned EXCEPT ![u] = Returned(outcome)]
             /\ IF ShouldStop(attempt_number[u])
                THEN /\ future' = [future EXCEPT ![u] =
                            [kind |-> "exception",
                             exc |-> RetryError(Exception(outcome))]]
                     /\ ustate' = [ustate EXCEPT ![u] = "finished"]
                     /\ thread_of' = [thread_of EXCEPT ![u] = 0]
                ELSE /\ ustate' = [ustate EXCEPT ![u] = "backoff"]
                     /\ UNCHANGED <<future, thread_of>>
        ELSE /\ future' = [future EXCEPT ![u] =
                    [kind |-> "result", value |-> outcome.value]]
             /\ ustate' = [ustate EXCEPT ![u] = "finished"]
             /\ thread_of' = [thread_of EXCEPT ![u] = 0]
             /\ returned' = [returned EXCEPT ![u] = Returned(outcome)]
             /\ UNCHANGED <<raised, last_exc>>
  /\ UNCHANGED <<max_workers, main_pc, submitted, work_queue,
                 attempt_number, results>>
  /\ RunnerFrame

\* (mutation of SleepOver: the next attempt starts while one is running)
SleepOver_Overlapping(u) ==
  /\ ustate[u] \in {"backoff", "running"}
  /\ attempt_number[u] < stop_after_attempt

\* the backoff sleep of u is over: tenacity starts the next attempt
SleepOver(u) == ustate[u] = "backoff"

BackoffEnd(u) ==
  /\ SleepOver(u)
  /\ ustate' = [ustate EXCEPT ![u] = "running"]
  /\ attempt_number' = [attempt_number EXCEPT ![u] = @ + 1]
  /\ UNCHANGED <<max_workers, main_pc, submitted, work_queue, thread_of,
                 ended, raised, last_exc, returned, future, results>>
  /\ RunnerFrame

\* (mutation of CollectedEntry: a unit that ever raised is reported failed)
CollectedEntry_FailIfEverRaised(u) ==
  IF future[u].kind = "result" /\ raised[u] = 0
  THEN future[u].value
  ELSE processing_error(u, <<"RetryError", last_exc[u]>>)

\* what one iteration of `for future in as_completed(...)` appends
CollectedEntry(u) ==
  IF future[u].kind = "result"
  THEN future[u].value
  ELSE processing_error(u, str_RetryError(future[u].exc))

\* (mutation of Collect: there is no except branch, an exception of
\* future.result() leaves main)
Collect_ExceptionLeavesMain(u) ==
  /\ main_pc = "collect"
  /\ ustate[u] = "finished"
  /\ results' = IF future[u].kind = "result"
                THEN Append(results, CollectedEntry(u)) ELSE results
  /\ ustate' = [ustate EXCEPT ![u] = "collected"]
  /\ main_pc' = IF future[u].kind = "exception" THEN "raised"
                ELSE IF \A v \in pdf_files \ {u} : ustate[v] = "collected"
                THEN "done" ELSE "collect"
  /\ UNCHANGED <<max_workers, submitted, work_queue, thread_of,
                 attempt_number, ended, raised, last_exc, returned, future>>
  /\ RunnerFrame

\* (mutation of Collect: the except branch records nothing)
Collect_ExceptDropsResult(u) ==
  /\ main_pc = "collect"
  /\ ustate[u] = "finished"
  /\ results' = IF future[u].kind = "result"
                THEN Append(results, CollectedEntry(u)) ELSE results
  /\ ustate' = [ustate EXCEPT ![u] = "collected"]
  /\ main_pc' = IF \A v \in pdf_files \ {u} : ustate[v] = "collected"
                THEN "done" ELSE "collect"
  /\ UNCHANGED <<max_workers, submitted, work_queue, thread_of,
                 attempt_number, ended, raised, last_exc, returned, future>>
  /\ RunnerFrame

\* (mutation of Collect: an exception of future.result() leaves the loop)
Collect_ExceptionEndsLoop(u) ==
  /\ main_pc = "collect"
  /\ ustate[u] = "finished"
  /\ results' = Append(results, CollectedEntry(u))
  /\ ustate' = [ustate EXCEPT ![u] = "collected"]
  /\ main_pc' = IF \/ future[u].kind = "exception"
                   \/ \A v \in pdf_files \ {u} : ustate[v] = "collected"
                THEN "done" ELSE "collect"
  /\ UNCHANGED <<max_workers, submitted, work_queue, thread_of,
                 attempt_number, ended, raised, last_exc, returned, future>>
  /\ RunnerFrame

\* one iteration of main's collection loop for a completed future
Collect(u) ==
  /\ main_pc = "collect"
  /\ ustate[u] = "finished"
  /\ results' = Append(results, CollectedEntry(u))
  /\ ustate' = [ustate EXCEPT ![u] = "collected"]
  /\ main_pc' = IF \A v \in pdf_files \ {u} : ustate[v] = "collected"
                THEN "done" ELSE "collect"
  /\ UNCHANGED <<max_workers, submitted, work_queue, thread_of,
                 attempt_number, ended, raised, last_exc, returned, future>>
  /\ RunnerFrame

UnitStep(u) ==
  \/ \E t \in 1..MaxWorkersBound : WorkerTake(u, t)
  \/ \E ext \in ExtInputs, io \in IoInputs, resp \in RespInputs :
        AttemptEnd(u, ext, io, resp)
  \/ BackoffEnd(u)

Next ==
  \/ Submit
  \/ \E u \in pdf_files, t \in 1..MaxWorkersBound : WorkerTake(u, t)
  \/ \E u \in pdf_files, ext \in ExtInputs, io \in IoInputs,
        resp \in RespInputs : AttemptEnd(u, ext, io, resp)
  \/ \E u \in pdf_files : BackoffEnd(u)
  \/ \E u \in pdf_files : Collect(u)

Spec == Init /\ [][Next]_vars

\* ------------------------------------------------------------- claims

EntriesOf(u) == {i \in 1..Len(results) : results[i].filename = u}

\* the record the worker of u handed to its future, or the record main
\* builds from the RetryError wrapping the last exception of u
OwnOutcome(u) ==
  IF future[u].kind = "result"
  THEN future[u].value
  ELSE [filename |-> u, status |-> "processing_error",
        error |-> <<"RetryError", last_exc[u]>>, api_provider |-> provider]

\* C1: when main's collection loop has finished, results holds exactly
\* NumPapers entries, exactly one per input file, whatever max_workers is and
\* whatever each unit's attempts did (returned a success record, returned a
\* failure record, or raised on every attempt); before that, a unit has one
\* entry if it was collected and none otherwise.
BijectiveAccounting ==
  /\ \A u \in pdf_files :
        Cardinality(EntriesOf(u)) = IF ustate[u] = "collected" THEN 1 ELSE 0
  /\ \A i \in 1..Len(results) : results[i].filename \in pdf_files
  /\ main_pc = "done" =>
        /\ Len(results) = NumPapers
        /\ \A u \in pdf_files : Cardinality(EntriesOf(u)) = 1

\* witness of C1: a finished batch holding a unit that raised on every
\* attempt next to a unit that returned a record
BijectiveAccounting_Witness ==
  /\ main_pc = "done"
  /\ \E u, v \in pdf_files :
        /\ future[u].kind = "exception"
        /\ future[v].kind = "result"

\* C2: failure isolation: when the worker of unit k raised on every attempt,
\* every other unit has still been executed once the batch is over, the batch
\* ran to its end, and the single entry recorded for every other collected
\* unit is the outcome its own worker produced.
FailureIsolation ==
  \A k \in pdf_files :
    (raised[k] = stop_after_attempt) =>
      \A v \in pdf_files \ {k} :
        /\ main_pc = "done" =>
              /\ ustate[v] = "collected"
              /\ attempt_number[v] >= 1
              /\ ended[v] = attempt_number[v]
        /\ ustate[v] = "collected" =>
              /\ \E i \in 1..Len(results) : results[i] = OwnOutcome(v)
              /\ \A i \in EntriesOf(v) : results[i] = OwnOutcome(v)

\* witness of C2: the batch is over, one unit raised three times and was
\* collected first, another unit succeeded on its own first attempt
FailureIsolation_Witness ==
  /\ main_pc = "done"
  /\ \E k \in pdf_files, v \in pdf_files :
        /\ k # v
        /\ raised[k] = stop_after_attempt
        /\ results[1].filename = k
        /\ future[v].kind = "result"
        /\ future[v].value.status = "success"
        /\ attempt_number[v] = 1

\* C3 (as claimed): a unit whose remote summarization call fails is
\* re-attempted, so a failure record for the remote call is recorded only
\* after stop_after_attempt worker invocations.
RemoteFailureRetried ==
  \A u \in pdf_files :
    (future[u].kind = "result" /\ future[u].value.status = "api_error") =>
      attempt_number[u] = stop_after_attempt

\* names under which a record could carry the number of attempts made
AttemptFields == {"attempts", "attempt_number", "attempt_count", "retries"}

\* the single entry of results that belongs to a collected unit
EntryOf(u) == results[CHOOSE i \in 1..Len(results) : results[i].filename = u]

RetryThenSuccessRecordsAttempts ==
  \A u \in pdf_files :
    (ustate[u] = "collected" /\ raised[u] = 2 /\ returned[u] = "success") =>
      /\ attempt_number[u] = 3
      /\ Cardinality(EntriesOf(u)) = 1
      /\ EntryOf(u).status = "success"
      /\ \E f \in AttemptFields \cap DOMAIN EntryOf(u) : EntryOf(u)[f] = 3

\* C5 (amended): a unit whose worker raised on attempts 1 and 2 and succeeded
\* on attempt 3 yields exactly one entry, a success and no failure, after
\* exactly 3 worker invocations; the entry is the record the third invocation
\* returned and carries no count of attempts.
RetryThenSuccess ==
  \A u \in pdf_files :
    (raised[u] = 2 /\ returned[u] = "success") =>
      /\ attempt_number[u] = 3
      /\ ended[u] = 3
      /\ ustate[u] \in {"finished", "collected"}
      /\ ustate[u] = "collected" =>
           /\ Cardinality(EntriesOf(u)) = 1
           /\ EntryOf(u).status = "success"
           /\ EntryOf(u) = future[u].value
           /\ DOMAIN EntryOf(u) \cap AttemptFields = {}

\* witness of C5: a collected unit that raised twice and then succeeded
RetryThenSuccess_Witness ==
  \E u \in pdf_files :
    /\ ustate[u] = "collected"
    /\ raised[u] = 2
    /\ returned[u] = "success"
    /\ attempt_number[u] = 3

\* C6 (as claimed): a failure of local I/O inside process_single_paper (mkdir
\* or writing the text file raises) is not retried: the worker is invoked
\* once and the failure is the unit's result at once.
LocalIoFailureNotRetried ==
  \A u \in pdf_files :
    raised[u] >= 1 =>
      /\ attempt_number[u] = 1
      /\ future[u].kind # "pending"

PoolBound ==
  /\ Cardinality(Active) <= max_workers
  /\ \A u \in pdf_files :
       IF u \in Active THEN thread_of[u] \in 1..max_workers
                       ELSE thread_of[u] = 0
  /\ \A u, v \in Active : u # v => thread_of[u] # thread_of[v]

\* witness of C8: every pool thread is busy, one of them in a backoff sleep,
\* while a unit waits in the queue
PoolBound_Witness ==
  /\ Cardinality(Active) = max_workers
  /\ work_queue # <<>>
  /\ \E u \in Active : ustate[u] = "backoff"

Unfinished(v) == ustate[v] \in {"queued", "running", "backoff"}

\* C9 (as claimed): whenever a unit is in a backoff sleep, every other
\* unfinished unit can start or continue without waiting for that sleep.
BackoffBlocksNobody ==
  \A u, v \in pdf_files :
    (u # v /\ ustate[u] = "backoff" /\ Unfinished(v)) => ENABLED UnitStep(v)

\* C9 (amended): whenever a unit is in a backoff sleep, every other unit that
\* has already started can continue, and a queued unit can start when it is
\* at the head of the queue and fewer than max_workers units are active; a
\* queued unit cannot start while all max_workers pool threads are held by
\* running or sleeping units.
BackoffBlocksNoStartedUnit ==
  \A u, v \in pdf_files :
    (u # v /\ ustate[u] = "backoff") =>
      /\ v \in Active => ENABLED UnitStep(v)
      /\ ustate[v] = "queued" =>
           (ENABLED UnitStep(v)) <=>
              (Head(work_queue) = v /\ Cardinality(Active) < max_workers)

\* witness of C9: one unit sleeps in backoff while another one, started on
\* its own pool thread, is running its second attempt
BackoffBlocksNoStartedUnit_Witness ==
  \E u, v \in pdf_files :
    /\ u # v
    /\ ustate[u] = "backoff"
    /\ ustate[v] = "running"
    /\ attempt_number[v] = 2

\* C10: the attempts of a unit never overlap: at most one invocation of its
\* worker is in progress, a new one starts only when all earlier ones have
\* ended, and the unit's final outcome exists only when every invocation
\* has ended.
AttemptsSequential ==
  \A u \in pdf_files :
    /\ attempt_number[u] - ended[u] \in {0, 1}
    /\ (attempt_number[u] - ended[u] = 1) <=> (ustate[u] = "running")
    /\ future[u].kind # "pending" =>
         /\ ended[u] = attempt_number[u]
         /\ ustate[u] \in {"finished", "collected"}
    /\ EntriesOf(u) # {} => future[u].kind # "pending"

\* witness of C10: a unit is in its third attempt, the two earlier ones ended
AttemptsSequential_Witness ==
  \E u \in pdf_files :
    /\ ustate[u] = "running"
    /\ attempt_number[u] = 3
    /\ ended[u] = 2

TypeOK ==
  /\ max_workers \in 1..MaxWorkersBound
  /\ main_pc \in {"submit", "collect", "done"}
  /\ submitted \in 0..NumPapers
  /\ \A u \in pdf_files : attempt_number[u] \in 0..stop_after_attempt
  /\ Len(results) <= NumPapers

\* C11 (as claimed): every entry of results with status success went through
\* the quality validator before it was recorded: it carries a quality_score
\* and a quality_checks breakdown.
SuccessCarriesQuality ==
  \A i \in 1..Len(results) :
    results[i].status = "success" =>
      /\ "quality_score" \in DOMAIN results[i]
      /\ "quality_checks" \in DOMAIN results[i]

\* the batch runner while another component is exercised on its own
RunnerIdle ==
  /\ max_workers = 1
  /\ main_pc = "submit"
  /\ submitted = 0
  /\ work_queue = <<>>
  /\ thread_of = [u \in pdf_files |-> 0]
  /\ ustate = [u \in pdf_files |-> "unsubmitted"]
  /\ attempt_number = [u \in pdf_files |-> 0]
  /\ ended = [u \in pdf_files |-> 0]
  /\ raised = [u \in pdf_files |-> 0]
  /\ last_exc = [u \in pdf_files |-> "none"]
  /\ returned = [u \in pdf_files |-> "none"]
  /\ future = [u \in pdf_files |-> NoFuture]
  /\ results = <<>>

(***************************************************************************)
(* The quality validator: LangChainPaperProcessor._validate_extraction of  *)
(* scripts/langchain_pipeline.py, applied to one extraction record.        *)
(* A field value is abstracted to what the checks look at: its Python      *)
(* type, its length, whether it is the text 'Not found', and the integer   *)
(* it parses to.                                                           *)
(***************************************************************************)
Missing == [k |-> "missing", len |-> 0, txt |-> "", val |-> 0]
NoneV == [k |-> "None", len |-> 0, txt |-> "", val |-> 0]
StrV(n) == [k |-> "str", len |-> n, txt |-> "text", val |-> 0]
NotFound == [k |-> "str", len |-> 9, txt |-> "Not found", val |-> 0]
Digits(v) == [k |-> "str", len |-> 4, txt |-> "digits", val |-> v]
IntV(v) == [k |-> "int", len |-> 0, txt |-> "", val |-> v]
ListV(n) == [k |-> "list", len |-> n, txt |-> "", val |-> 0]
FloatInf == [k |-> "float", len |-> 0, txt |-> "inf", val |-> 0]

TitleValues == {Missing, NoneV, StrV(5), StrV(6), NotFound, IntV(7)}
AuthorsValues == {Missing, StrV(0), StrV(6), NotFound}
FindingsValues == {Missing, ListV(0), ListV(1), IntV(7)}
YearValues ==
  {Missing, NotFound, Digits(1899), Digits(1900), Digits(2026), Digits(2027),
   StrV(4), IntV(2020), ListV(1), FloatInf}
AbstractValues == {Missing, NoneV, StrV(50), StrV(51)}
MethodologyValues == {Missing, StrV(20), StrV(21), NotFound}
BiomarkersValues == {Missing, NoneV, ListV(0), ListV(1)}

\* bool(x) of Python
Truthy(x) ==
  CASE x.k = "str" -> x.len > 0
    [] x.k = "list" -> x.len > 0
    [] x.k = "int" -> x.val # 0
    [] x.k = "float" -> x.txt = "inf" \/ x.val # 0
    [] OTHER -> FALSE

\* x == 'Not found'
IsNotFound(x) == x.k = "str" /\ x.txt = "Not found"

\* len(x) is defined (it raises TypeError otherwise)
HasLen(x) == x.k \in {"str", "list"}

\* result.get(key, default)
get(result, key, default) ==
  IF result[key].k = "missing" THEN default ELSE result[key]

\* the value of one check, or the exception its evaluation raises
Ok(v) == [exc |-> "none", v |-> v]
Exc(e) == [exc |-> e, v |-> FALSE]

\* _validate_year
_validate_year(year_str) ==
  IF ~Truthy(year_str) \/ IsNotFound(year_str) THEN Ok(FALSE)
  ELSE IF year_str.k = "float" THEN Exc("OverflowError")
  ELSE IF year_str.k = "int" \/ (year_str.k = "str" /\ year_str.txt = "digits")
  THEN Ok(1900 <= year_str.val /\ year_str.val <= 2026)
  ELSE Ok(FALSE)

has_title(result) ==
  LET t == get(result, "title", NoneV) IN
  IF ~Truthy(t) \/ IsNotFound(t) THEN Ok(FALSE)
  ELSE IF ~HasLen(t) THEN Exc("TypeError")
  ELSE Ok(t.len > 5)

has_authors(result) ==
  LET a == get(result, "authors", NoneV) IN Ok(Truthy(a) /\ ~IsNotFound(a))

has_findings(result) ==
  LET f == get(result, "key_findings", NoneV) IN
  IF ~Truthy(f) THEN Ok(FALSE)
  ELSE IF ~HasLen(f) THEN Exc("TypeError")
  ELSE Ok(f.len > 0)

has_year(result) == _validate_year(get(result, "year", NoneV))

sufficient_abstract(result) ==
  LET a == get(result, "abstract", StrV(0)) IN
  IF ~HasLen(a) THEN Exc("TypeError") ELSE Ok(a.len > 50)

has_methodology(result) ==
  LET m == get(result, "methodology", NoneV) IN
  IF ~Truthy(m) \/ IsNotFound(m) THEN Ok(FALSE)
  ELSE IF ~HasLen(m) THEN Exc("TypeError")
  ELSE Ok(m.len > 20)

has_biomarkers(result) ==
  LET b == get(result, "biomarkers", ListV(0)) IN
  IF ~HasLen(b) THEN Exc("TypeError") ELSE Ok(b.len > 0)

\* the keys of the dict `checks`, in the order they are evaluated
CheckOrder ==
  <<"has_title", "has_authors", "has_findings", "has_year",
    "sufficient_abstract", "has_methodology", "has_biomarkers">>

EvalChecks(result) ==
  <<has_title(result), has_authors(result), has_findings(result),
    has_year(result), sufficient_abstract(result), has_methodology(result),
    has_biomarkers(result)>>

\* (mutation of quality_score: divides by a count of checks that is stale)
quality_score_StaleCount(checks) ==
  [num |-> Cardinality({c \in DOMAIN checks : checks[c]}), den |-> 6]

\* sum(checks.values()) / len(checks), kept as the exact fraction num / den
quality_score(checks) ==
  [num |-> Cardinality({c \in DOMAIN checks : checks[c]}),
   den |-> Cardinality(DOMAIN checks)]

\* _validate_extraction: the first check that raises ends the call
_validate_extraction(result) ==
  LET cs == EvalChecks(result)
      failing == {i \in 1..Len(cs) : cs[i].exc # "none"}
  IN IF failing # {}
     THEN Raise(cs[CHOOSE i \in failing : \A j \in failing : i <= j].exc)
     ELSE LET checks == [c \in {CheckOrder[i] : i \in 1..Len(CheckOrder)} |->
                           cs[CHOOSE i \in 1..Len(CheckOrder) :
                                CheckOrder[i] = c].v]
          IN Return(("quality_score" :> quality_score(checks))
                    @@ ("quality_checks" :> checks) @@ result)

QVInit ==
  /\ qv_pc = "input"
  /\ qv_record \in [title : TitleValues, authors : AuthorsValues,
                    key_findings : FindingsValues, year : YearValues,
                    abstract : AbstractValues,
                    methodology : MethodologyValues,
                    biomarkers : BiomarkersValues]
  /\ qv_out = <<>>
  /\ RunnerIdle /\ ReportIdle /\ NormIdle /\ ExtIdle /\ AggIdle

\* one call of _validate_extraction
Validate ==
  /\ qv_pc = "input"
  /\ qv_out' = _validate_extraction(qv_record)
  /\ qv_pc' = "done"
  /\ UNCHANGED <<qv_record, runner_vars, norm_vars, ext_vars, agg_vars>>

QVNext == Validate

SpecQV == QVInit /\ [][QVNext]_vars

CheckNames == {CheckOrder[i] : i \in 1..Len(CheckOrder)}

\* C12: whenever the validator returns, its checks are the fixed set of 7,
\* the score is (number of checks that passed) / 7, hence one of 0/7 .. 7/7
\* and within [0, 1], and a record passing exactly 5 checks scores 5/7.
ScoreIsPassedOverSeven ==
  (qv_pc = "done" /\ qv_out.kind = "return") =>
    LET checks == qv_out.value["quality_checks"]
        score == qv_out.value["quality_score"]
        passed == Cardinality({c \in CheckNames : checks[c]})
    IN /\ DOMAIN checks = CheckNames
       /\ Cardinality(CheckNames) = 7
       /\ score.den = 7
       /\ score.num = passed
       /\ score.num \in 0..7
       /\ 0 <= score.num /\ score.num <= score.den
       /\ passed = 5 => score = [num |-> 5, den |-> 7]

\* witness of C12: a validated record that passes exactly 5 of the 7 checks
ScoreIsPassedOverSeven_Witness ==
  /\ qv_pc = "done"
  /\ qv_out.kind = "return"
  /\ Cardinality({c \in CheckNames : qv_out.value["quality_checks"][c]}) = 5
  /\ ~qv_out.value["quality_checks"]["has_year"]
  /\ ~qv_out.value["quality_checks"]["has_biomarkers"]

\* C13 (as claimed): the validator never throws: for every record, also one
\* with missing, null or wrongly typed fields, it returns a score and checks.
ValidatorNeverThrows ==
  qv_pc = "done" =>
    /\ qv_out.kind = "return"
    /\ DOMAIN qv_out.value["quality_checks"] = CheckNames

(***************************************************************************)
(* The entity normalizer: BiomarkerAggregator.normalize_biomarker_name of  *)
(* scripts/biomarker_aggregator.py.  A Python string is the sequence of    *)
(* its characters; None is a value that is no such sequence.               *)
(***************************************************************************)
MaxTokens == 3            \* a raw name is made of at most MaxTokens tokens

None == <<"None">>

LowerLetters ==
  <<"a", "b", "c", "d", "e", "f", "g", "h", "i", "j", "k", "l", "m">> \o
  <<"n", "o", "p", "q", "r", "s", "t", "u", "v", "w", "x", "y", "z">>
UpperLetters ==
  <<"A", "B", "C", "D", "E", "F", "G", "H", "I", "J", "K", "L", "M">> \o
  <<"N", "O", "P", "Q", "R", "S", "T", "U", "V", "W", "X", "Y", "Z">>

\* str.upper() and str.lower(), character by character
upper_char(c) ==
  IF \E i \in 1..Len(LowerLetters) : LowerLetters[i] = c
  THEN UpperLetters[CHOOSE i \in 1..Len(LowerLetters) : LowerLetters[i] = c]
  ELSE c
lower_char(c) ==
  IF \E i \in 1..Len(UpperLetters) : UpperLetters[i] = c
  THEN LowerLetters[CHOOSE i \in 1..Len(UpperLetters) : UpperLetters[i] = c]
  ELSE c
upper(s) == [i \in 1..Len(s) |-> upper_char(s[i])]
lower(s) == [i \in 1..Len(s) |-> lower_char(s[i])]

\* the character class [-_\s]
IsSeparator(c) == c \in {"-", "_", " ", "\t", "\n"}
NotSeparator(c) == ~IsSeparator(c)

\* re.sub(r'[-_\s]', '', name)
remove_separators(s) == SelectSeq(s, NotSeparator)

\* the alternatives of ^(GENE|PROTEIN|BIOMARKER):
TypePrefixes ==
  <<<<"G", "E", "N", "E", ":">>,
    <<"P", "R", "O", "T", "E", "I", "N", ":">>,
    <<"B", "I", "O", "M", "A", "R", "K", "E", "R", ":">>>>

StartsWith(s, p) == Len(s) >= Len(p) /\ SubSeq(s, 1, Len(p)) = p

\* re.sub(r'^(GENE|PROTEIN|BIOMARKER):', '', normalized): the match at the
\* start of the string is removed, once
strip_prefix(s) ==
  LET matching == {i \in 1..Len(TypePrefixes) : StartsWith(s, TypePrefixes[i])}
  IN IF matching = {} THEN s
     ELSE LET i == CHOOSE i \in matching : \A j \in matching : i <= j
          IN SubSeq(s, Len(TypePrefixes[i]) + 1, Len(s))

\* (mutation of normalize_biomarker_name: the prefix is removed before the
\* name is upper-cased)
normalize_biomarker_name_PrefixFirst(name) ==
  IF name = None \/ name = <<>> THEN <<>>
  ELSE upper(strip_prefix(remove_separators(name)))

\* normalize_biomarker_name
normalize_biomarker_name(name) ==
  IF name = None \/ name = <<>> THEN <<>>
  ELSE strip_prefix(upper(remove_separators(name)))

\* the pieces raw names are put together from
Tokens ==
  {<<"G", "E", "N", "E", ":">>, <<"g", "e", "n", "e", ":">>,
   <<"P", "R", "O", "T", "E", "I", "N", ":">>, <<"B", "I", "O", "M", "A", "R", "K", "E", "R", ":">>,
   <<"G", "e">>, <<"n", "e", ":">>, <<"-">>, <<"_">>, <<" ">>,
   <<"B", "R", "C", "A">>, <<"b", "r", "c", "a">>, <<"1">>, <<"-", "1">>}

RECURSIVE Concat(_)
Concat(ts) == IF ts = <<>> THEN <<>> ELSE Head(ts) \o Concat(Tail(ts))

RawNames ==
  {Concat(ts) : ts \in UNION {[1..n -> Tokens] : n \in 0..MaxTokens}}
  \cup {None}

NormInit ==
  /\ norm_pc = "input"
  /\ name_in \in RawNames
  /\ norm_once = <<>>
  /\ norm_twice = <<>>
  /\ RunnerIdle /\ ReportIdle /\ QVIdle /\ ExtIdle /\ AggIdle

\* normalize_biomarker_name(name)
NormalizeOnce ==
  /\ norm_pc = "input"
  /\ norm_once' = normalize_biomarker_name(name_in)
  /\ norm_pc' = "once"
  /\ UNCHANGED <<name_in, norm_twice, runner_vars, qv_vars, ext_vars, agg_vars>>

\* normalize_biomarker_name applied to its own result
NormalizeTwice ==
  /\ norm_pc = "once"
  /\ norm_twice' = normalize_biomarker_name(norm_once)
  /\ norm_pc' = "twice"
  /\ UNCHANGED <<name_in, norm_once, runner_vars, qv_vars, ext_vars, agg_vars>>

NormNext == NormalizeOnce \/ NormalizeTwice

SpecNorm == NormInit /\ [][NormNext]_vars

\* C14 (as claimed): normalization is idempotent: normalizing a normalized
\* name gives the same name.
NormalizeIdempotent ==
  norm_pc = "twice" => norm_twice = norm_once

S_BRCA1 == <<"B", "R", "C", "A", "1">>
S_BRCA_1 == <<"B", "R", "C", "A", "-", "1">>
S_brca1 == <<"b", "r", "c", "a", "1">>

\* the reference of C15, character by character: drop hyphens, underscores
\* and whitespace and upper-case the rest
RECURSIVE RefClean(_)
RefClean(s) ==
  IF s = <<>> THEN <<>>
  ELSE (IF Head(s) \in {"-", "_", " ", "\t", "\n"}
        THEN <<>> ELSE <<upper_char(Head(s))>>) \o RefClean(Tail(s))

\* then drop one leading GENE:, PROTEIN: or BIOMARKER: token
RefNormalize(raw) ==
  IF raw = None \/ raw = <<>> THEN <<>>
  ELSE LET t == RefClean(raw)
           ps == {p \in {TypePrefixes[i] : i \in 1..Len(TypePrefixes)} :
                    Len(t) >= Len(p) /\ \A i \in 1..Len(p) : t[i] = p[i]}
       IN IF ps = {} THEN t
          ELSE LET p == CHOOSE p \in ps : TRUE
               IN [i \in 1..(Len(t) - Len(p)) |-> t[i + Len(p)]]

\* C15: normalize(raw) is the result of removing every hyphen, underscore
\* and whitespace character, upper-casing, and then removing one leading
\* GENE:, PROTEIN: or BIOMARKER: token; 'BRCA1', 'BRCA-1' and 'brca1' all
\* give 'BRCA1', and the empty string and None give the empty string.
NormalizeMatchesReference ==
  norm_pc \in {"once", "twice"} =>
    /\ norm_once = RefNormalize(name_in)
    /\ name_in \in {S_BRCA1, S_BRCA_1, S_brca1} => norm_once = S_BRCA1
    /\ name_in \in {<<>>, None} => norm_once = <<>>

\* witness of C15: 'gene:brca-1' was normalized, to 'BRCA1'
NormalizeMatchesReference_Witness ==
  /\ norm_pc = "once"
  /\ name_in = <<"g", "e", "n", "e", ":", "b", "r", "c", "a", "-", "1">>
  /\ norm_once = S_BRCA1

(***************************************************************************)
(* The aggregation engine: BiomarkerAggregator of                          *)
(* scripts/biomarker_aggregator.py.  self.biomarkers is the function       *)
(* biomarkers from canonical keys to entities together with bio_order, the *)
(* keys in dict insertion order; an entity's 'diseases' dict is the        *)
(* function diseases with disease_order.  A timestamp is a positive        *)
(* integer and 0 stands for None.                                          *)
(***************************************************************************)
MaxIngest == 3            \* add_paper_results is called at most MaxIngest times

\* the strings of the sample records
S_breast_cancer == <<"b", "r", "e", "a", "s", "t", " ", "c", "a", "n", "c", "e", "r">>
S_Breast_Cancer == <<"B", "r", "e", "a", "s", "t", " ", "C", "a", "n", "c", "e", "r">>
S_ovarian_cancer == <<"o", "v", "a", "r", "i", "a", "n", " ", "c", "a", "n", "c", "e", "r">>
S_GENE_TP53 == <<"G", "E", "N", "E", ":", "T", "P", "5", "3">>

\* dict.get(key, default)
dict_get(d, key, default) == IF key \in DOMAIN d THEN d[key] ELSE default

\* a list item that is not a dict, and isinstance(biomarker, dict)
NotADict == [not_a_dict |-> TRUE]
isinstance_dict(x) == "not_a_dict" \notin DOMAIN x

\* the truth value of a string or None: `if not raw_name`, `if disease`
truthy_str(x) == x # None /\ x # <<>>

\* the default factories of the two defaultdicts
default_entity ==
  [normalized_name |-> <<>>, variants |-> {}, diseases |-> <<>>,
   disease_order |-> <<>>, total_mentions |-> 0,
   first_seen |-> 0, last_seen |-> 0]
default_disease ==
  [papers |-> {}, association_types |-> {}, evidence_levels |-> {}]

\* (mutation of disease_data_update: the evidence level of the last paper
\* replaces the set)
disease_data_update_LastEvidenceWins(disease_data, filename, assoc_type, evidence) ==
  [papers |-> disease_data.papers \cup {filename},
   association_types |-> disease_data.association_types \cup {assoc_type},
   evidence_levels |-> {evidence}]

\* the three .add calls on disease_data
disease_data_update(disease_data, filename, assoc_type, evidence) ==
  [papers |-> disease_data.papers \cup {filename},
   association_types |-> disease_data.association_types \cup {assoc_type},
   evidence_levels |-> disease_data.evidence_levels \cup {evidence}]

\* (mutation of add_disease: the subscript creates the entry of the
\* condition, and nothing is added to it)
add_disease_CreatesOnly(bio_data, disease, filename, assoc_type, evidence) ==
  IF ~truthy_str(disease) THEN bio_data
  ELSE LET key == lower(disease)
       IN IF key \in DOMAIN bio_data.diseases THEN bio_data
          ELSE [bio_data EXCEPT
                  !.diseases = (key :> default_disease) @@ @,
                  !.disease_order = Append(@, key)]

\* one round of `for disease in diseases`
add_disease(bio_data, disease, filename, assoc_type, evidence) ==
  IF ~truthy_str(disease) THEN bio_data
  ELSE LET key == lower(disease)
           created == key \notin DOMAIN bio_data.diseases
           disease_data == IF created THEN default_disease
                           ELSE bio_data.diseases[key]
           updated == disease_data_update(disease_data, filename,
                                          assoc_type, evidence)
       IN [bio_data EXCEPT
             !.diseases = (key :> updated) @@ @,
             !.disease_order = IF created THEN Append(@, key) ELSE @]

RECURSIVE add_diseases(_, _, _, _, _)
add_diseases(bio_data, diseases, filename, assoc_type, evidence) ==
  IF diseases = <<>> THEN bio_data
  ELSE add_diseases(add_disease(bio_data, Head(diseases), filename,
                                assoc_type, evidence),
                    Tail(diseases), filename, assoc_type, evidence)

\* (mutation of update_entity: normalized_name is the upper-cased raw name)
update_entity_NameFromRaw(bio_data, normalized, raw_name, timestamp) ==
  [bio_data EXCEPT
     !.normalized_name = upper(raw_name),
     !.variants = @ \cup {raw_name},
     !.total_mentions = @ + 1,
     !.first_seen = IF @ = 0 THEN timestamp ELSE @,
     !.last_seen = timestamp]

\* (mutation of update_entity: a mention is counted once per variant)
update_entity_MentionPerVariant(bio_data, normalized, raw_name, timestamp) ==
  [bio_data EXCEPT
     !.normalized_name = normalized,
     !.variants = @ \cup {raw_name},
     !.total_mentions = IF raw_name \in bio_data.variants THEN @ ELSE @ + 1,
     !.first_seen = IF @ = 0 THEN timestamp ELSE @,
     !.last_seen = timestamp]

\* the updates of bio_data: name, variants, mentions, first and last seen
update_entity(bio_data, normalized, raw_name, timestamp) ==
  [bio_data EXCEPT
     !.normalized_name = normalized,
     !.variants = @ \cup {raw_name},
     !.total_mentions = @ + 1,
     !.first_seen = IF @ = 0 THEN timestamp ELSE @,
     !.last_seen = timestamp]

\* one round of `for biomarker in biomarkers_data`
add_biomarker(idx, biomarker, filename, timestamp) ==
  IF ~isinstance_dict(biomarker) THEN idx
  ELSE LET raw_name == dict_get(biomarker, "name", <<>>)
           diseases == dict_get(biomarker, "diseases", <<>>)
           assoc_type == dict_get(biomarker, "association_type", "unknown")
           evidence == dict_get(biomarker, "evidence_level", "unknown")
       IN IF ~truthy_str(raw_name) THEN idx
          ELSE LET normalized == normalize_biomarker_name(raw_name)
                   created == normalized \notin DOMAIN idx.biomarkers
                   bio_data == IF created THEN default_entity
                               ELSE idx.biomarkers[normalized]
                   updated ==
                     add_diseases(update_entity(bio_data, normalized,
                                                raw_name, timestamp),
                                  diseases, filename, assoc_type, evidence)
               IN [biomarkers |-> (normalized :> updated) @@ idx.biomarkers,
                   bio_order |-> IF created
                                 THEN Append(idx.bio_order, normalized)
                                 ELSE idx.bio_order]

RECURSIVE add_biomarkers(_, _, _, _)
add_biomarkers(idx, biomarkers_data, filename, timestamp) ==
  IF biomarkers_data = <<>> THEN idx
  ELSE add_biomarkers(add_biomarker(idx, Head(biomarkers_data), filename,
                                    timestamp),
                      Tail(biomarkers_data), filename, timestamp)

\* add_paper_results
add_paper_results(idx, paper_result, timestamp) ==
  LET filename == dict_get(paper_result, "filename", "unknown")
      biomarkers_data == dict_get(paper_result, "biomarkers", <<>>)
  IN IF biomarkers_data = <<>> THEN idx
     ELSE add_biomarkers(idx, biomarkers_data, filename, timestamp)

\* (mutation of confidence_score: no cap)
confidence_score_Uncapped(paper_count) ==
  [num |-> paper_count, den |-> 10]

\* min(paper_count / 10.0, 1.0), as a fraction of integers
confidence_score(paper_count) ==
  IF paper_count >= 10 THEN [num |-> 10, den |-> 10]
  ELSE [num |-> paper_count, den |-> 10]

\* the items of the two nested loops, in dict order
RECURSIVE disease_items(_, _)
disease_items(bio_data, order) ==
  IF order = <<>> THEN <<>>
  ELSE LET disease == Head(order)
           disease_data == bio_data.diseases[disease]
           paper_count == Cardinality(disease_data.papers)
       IN <<[biomarker |-> bio_data.normalized_name,
             disease |-> disease,
             paper_count |-> paper_count,
             association_types |-> disease_data.association_types,
             evidence_levels |-> disease_data.evidence_levels,
             confidence_score |-> confidence_score(paper_count)]>>
          \o disease_items(bio_data, Tail(order))

RECURSIVE biomarker_items(_, _)
biomarker_items(bm, order) ==
  IF order = <<>> THEN <<>>
  ELSE disease_items(bm[Head(order)], bm[Head(order)].disease_order)
       \o biomarker_items(bm, Tail(order))

\* (mutation of sort_by_paper_count: reverse=True is left out)
RECURSIVE sort_by_paper_count_Ascending(_)
sort_by_paper_count_Ascending(s) ==
  IF s = <<>> THEN <<>>
  ELSE LET n == Len(s)
           rest == sort_by_paper_count_Ascending(SubSeq(s, 1, n - 1))
           pos == Cardinality({i \in 1..Len(rest) :
                                 rest[i].paper_count <= s[n].paper_count})
       IN SubSeq(rest, 1, pos) \o <<s[n]>> \o SubSeq(rest, pos + 1, Len(rest))

\* list.sort(key=lambda x: x['paper_count'], reverse=True): stable
RECURSIVE sort_by_paper_count(_)
sort_by_paper_count(s) ==
  IF s = <<>> THEN <<>>
  ELSE LET n == Len(s)
           rest == sort_by_paper_count(SubSeq(s, 1, n - 1))
           pos == Cardinality({i \in 1..Len(rest) :
                                 rest[i].paper_count >= s[n].paper_count})
       IN SubSeq(rest, 1, pos) \o <<s[n]>> \o SubSeq(rest, pos + 1, Len(rest))

\* (mutation of find_high_confidence_associations: more than min_papers
\* papers are required)
find_high_confidence_associations_StrictlyMore(bm, order, min_papers) ==
  sort_by_paper_count(
    SelectSeq(biomarker_items(bm, order),
              LAMBDA x : x.paper_count > min_papers))

\* find_high_confidence_associations
find_high_confidence_associations(bm, order, min_papers) ==
  sort_by_paper_count(
    SelectSeq(biomarker_items(bm, order),
              LAMBDA x : x.paper_count >= min_papers))

\* diseases_list of get_biomarker_details, in dict order; list(a set) has
\* the elements of the set in an order Python does not fix, so it is kept
\* as the set
RECURSIVE diseases_list(_, _)
diseases_list(bio_data, order) ==
  IF order = <<>> THEN <<>>
  ELSE LET data == bio_data.diseases[Head(order)]
       IN <<[disease |-> Head(order),
             paper_count |-> Cardinality(data.papers),
             papers |-> data.papers,
             association_types |-> data.association_types,
             evidence_levels |-> data.evidence_levels]>>
          \o diseases_list(bio_data, Tail(order))

\* (mutation of get_biomarker_details: the name is looked up as given)
get_biomarker_details_LooksUpRaw(bm, biomarker_name) ==
  LET normalized == biomarker_name
  IN IF normalized \notin DOMAIN bm THEN <<>>
     ELSE LET bio_data == bm[normalized]
          IN [normalized_name |-> bio_data.normalized_name,
              name_variants |-> bio_data.variants,
              total_mentions |-> bio_data.total_mentions,
              disease_associations |->
                diseases_list(bio_data, bio_data.disease_order),
              first_seen |-> bio_data.first_seen,
              last_seen |-> bio_data.last_seen]

\* get_biomarker_details: None (<<>> here) or the snapshot of the entity
\* under the normalized name
get_biomarker_details(bm, biomarker_name) ==
  LET normalized == normalize_biomarker_name(biomarker_name)
  IN IF normalized \notin DOMAIN bm THEN <<>>
     ELSE LET bio_data == bm[normalized]
          IN [normalized_name |-> bio_data.normalized_name,
              name_variants |-> bio_data.variants,
              total_mentions |-> bio_data.total_mentions,
              disease_associations |->
                diseases_list(bio_data, bio_data.disease_order),
              first_seen |-> bio_data.first_seen,
              last_seen |-> bio_data.last_seen]

\* (mutation of details_shared: name_variants is bio_data['variants']
\* itself, not list(...) of it)
details_shared_VariantsItself(bm, biomarker_name) ==
  IF normalize_biomarker_name(biomarker_name) \in DOMAIN bm
  THEN {"name_variants"} ELSE {}

\* the containers of the returned dict that are objects of the index: none,
\* the dict and diseases_list are built anew, every set goes through
\* list(...), and str, int and None cannot be modified
details_shared(bm, biomarker_name) == {}

\* what a reader sees in the value it holds: a shared container shows the
\* state the index has now
reader_view(out, shared, call, bm) ==
  IF "name_variants" \in shared
  THEN [out EXCEPT
          !.name_variants = bm[normalize_biomarker_name(call.arg)].variants]
  ELSE out

\* [:10] of get_summary
TOP_LIMIT == 10

\* (mutation of sorted_by_count: items with equal counts come out in the
\* reverse of their order)
RECURSIVE sorted_by_count_TiesReversed(_)
sorted_by_count_TiesReversed(s) ==
  IF s = <<>> THEN <<>>
  ELSE LET n == Len(s)
           rest == sorted_by_count_TiesReversed(SubSeq(s, 1, n - 1))
           pos == Cardinality({i \in 1..Len(rest) : rest[i][2] > s[n][2]})
       IN SubSeq(rest, 1, pos) \o <<s[n]>> \o SubSeq(rest, pos + 1, Len(rest))

\* sorted(pairs, key=lambda x: x[1], reverse=True): stable
RECURSIVE sorted_by_count(_)
sorted_by_count(s) ==
  IF s = <<>> THEN <<>>
  ELSE LET n == Len(s)
           rest == sorted_by_count(SubSeq(s, 1, n - 1))
           pos == Cardinality({i \in 1..Len(rest) : rest[i][2] >= s[n][2]})
       IN SubSeq(rest, 1, pos) \o <<s[n]>> \o SubSeq(rest, pos + 1, Len(rest))

\* s[:n]
slice_to(s, n) == SubSeq(s, 1, IF Len(s) < n THEN Len(s) ELSE n)

\* sum(len(bio['diseases']) for bio in self.biomarkers.values())
RECURSIVE total_associations(_, _)
total_associations(bm, order) ==
  IF order = <<>> THEN 0
  ELSE Cardinality(DOMAIN bm[Head(order)].diseases)
       + total_associations(bm, Tail(order))

\* (mutation of all_diseases: = in place of +=)
RECURSIVE all_diseases_Overwrites(_)
all_diseases_Overwrites(items) ==
  IF items = <<>> THEN <<>>
  ELSE LET n == Len(items)
           before == all_diseases_Overwrites(SubSeq(items, 1, n - 1))
           x == items[n]
           at == {i \in 1..Len(before) : before[i][1] = x.disease}
       IN IF at = {} THEN Append(before, <<x.disease, x.paper_count>>)
          ELSE [i \in 1..Len(before) |->
                  IF i \in at THEN <<before[i][1], x.paper_count>>
                  ELSE before[i]]

\* all_diseases[disease] += len(...['papers']) over the two nested loops:
\* the (disease, count) items of the defaultdict in insertion order
RECURSIVE all_diseases(_)
all_diseases(items) ==
  IF items = <<>> THEN <<>>
  ELSE LET n == Len(items)
           before == all_diseases(SubSeq(items, 1, n - 1))
           x == items[n]
           at == {i \in 1..Len(before) : before[i][1] = x.disease}
       IN IF at = {} THEN Append(before, <<x.disease, x.paper_count>>)
          ELSE [i \in 1..Len(before) |->
                  IF i \in at
                  THEN <<before[i][1], before[i][2] + x.paper_count>>
                  ELSE before[i]]

\* get_summary
get_summary(bm, order) ==
  LET top_biomarkers ==
        slice_to(sorted_by_count([i \in 1..Len(order) |->
                                    <<order[i], bm[order[i]].total_mentions>>]),
                 TOP_LIMIT)
      top_diseases ==
        slice_to(sorted_by_count(all_diseases(biomarker_items(bm, order))),
                 TOP_LIMIT)
  IN [total_unique_biomarkers |-> Cardinality(DOMAIN bm),
      total_biomarker_disease_associations |-> total_associations(bm, order),
      top_biomarkers |->
        [i \in 1..Len(top_biomarkers) |->
           [name |-> top_biomarkers[i][1], mentions |-> top_biomarkers[i][2]]],
      top_diseases |->
        [i \in 1..Len(top_diseases) |->
           [disease |-> top_diseases[i][1],
            association_count |-> top_diseases[i][2]]]]

\* the two records of the sample run
PaperA ==
  [filename |-> "paper1.pdf",
   biomarkers |-> <<[name |-> S_BRCA1,
                     diseases |-> <<S_breast_cancer, S_ovarian_cancer>>,
                     association_type |-> "causal",
                     evidence_level |-> "clinical_trial"]>>]
PaperB ==
  [filename |-> "paper2.pdf",
   biomarkers |-> <<[name |-> S_BRCA_1,
                     diseases |-> <<S_breast_cancer>>,
                     association_type |-> "causal",
                     evidence_level |-> "meta_analysis"]>>]

\* further records: other spellings, a name made of a separator only,
\* repeated and empty entries, items that are not dicts, missing keys
PaperC ==
  [filename |-> "paper1.pdf",
   biomarkers |-> <<[name |-> S_brca1,
                     diseases |-> <<S_Breast_Cancer>>,
                     association_type |-> "correlative",
                     evidence_level |-> "clinical_trial"],
                    [name |-> <<"-">>,
                     diseases |-> <<S_breast_cancer>>]>>]
PaperD ==
  [biomarkers |-> <<[name |-> S_BRCA1,
                     diseases |-> <<S_breast_cancer, <<>>, S_breast_cancer>>,
                     association_type |-> "causal",
                     evidence_level |-> "clinical_trial"],
                    NotADict,
                    [name |-> S_BRCA1,
                     diseases |-> <<S_breast_cancer>>,
                     association_type |-> "causal",
                     evidence_level |-> "clinical_trial"],
                    [name |-> <<>>, diseases |-> <<S_breast_cancer>>],
                    [name |-> None, diseases |-> <<S_breast_cancer>>],
                    [diseases |-> <<S_ovarian_cancer>>]>>]
PaperE ==
  [filename |-> "paper3.pdf",
   biomarkers |-> <<[name |-> S_GENE_TP53,
                     diseases |-> <<S_ovarian_cancer, None>>,
                     evidence_level |-> "meta_analysis"],
                    [name |-> S_BRCA_1]>>]
PaperF == [filename |-> "paper3.pdf", biomarkers |-> <<>>]
PaperG == [filename |-> "paper2.pdf", title |-> "Unknown"]

Papers == {PaperA, PaperB, PaperC, PaperD, PaperE, PaperF, PaperG}

EmptyIndex == [biomarkers |-> <<>>, bio_order |-> <<>>]

AggInit == AggIdle /\ RunnerIdle /\ ReportIdle /\ QVIdle /\ NormIdle /\ ExtIdle

\* aggregator.add_paper_results(paper_result), at the time `now`
Ingest ==
  /\ Len(ingested) < MaxIngest
  /\ \E paper_result \in Papers :
       \E now \in {IF clock = 0 THEN 1 ELSE clock, clock + 1} :
         LET idx == add_paper_results(
                      [biomarkers |-> biomarkers, bio_order |-> bio_order],
                      paper_result, now)
         IN /\ biomarkers' = idx.biomarkers
            /\ bio_order' = idx.bio_order
            /\ clock' = now
            /\ ingested' = Append(ingested, paper_result)
            /\ q_out' = reader_view(q_out, q_shared, q_call, idx.biomarkers)
  /\ UNCHANGED <<q_call, q_shared>>
  /\ UNCHANGED <<runner_vars, qv_vars, norm_vars, ext_vars>>

AggNext == Ingest

SpecAgg == AggInit /\ [][AggNext]_vars

\* C16 (as claimed): the index never holds an entity whose canonical key is
\* the empty string, whatever raw names were ingested.
NoEmptyCanonicalKey ==
  <<>> \notin DOMAIN biomarkers

\* the association occurrences ingested so far that the aggregator counts:
\* <<i, j>> is item j of the i-th ingested record, a dict with a name
Occurrences ==
  {o \in UNION {{<<i, j>> :
                   j \in 1..Len(dict_get(ingested[i], "biomarkers", <<>>))} :
                i \in 1..Len(ingested)} :
     LET item == ingested[o[1]].biomarkers[o[2]]
     IN isinstance_dict(item) /\ truthy_str(dict_get(item, "name", <<>>))}
RawNameOf(o) == ingested[o[1]].biomarkers[o[2]].name
DocumentOf(o) == dict_get(ingested[o[1]], "filename", "unknown")
ConditionsOf(o) ==
  LET ds == dict_get(ingested[o[1]].biomarkers[o[2]], "diseases", <<>>)
  IN {lower(ds[n]) : n \in {m \in 1..Len(ds) : truthy_str(ds[m])}}

KeysAreCanonical ==
  /\ \A k \in DOMAIN biomarkers :
       /\ biomarkers[k].normalized_name = k
       /\ \A v \in biomarkers[k].variants : normalize_biomarker_name(v) = k
  /\ \A o \in Occurrences :
       LET k == normalize_biomarker_name(RawNameOf(o))
       IN k \in DOMAIN biomarkers /\ RawNameOf(o) \in biomarkers[k].variants

KeysStay ==
  \A k \in DOMAIN biomarkers :
    k \in DOMAIN biomarkers' /\ biomarkers'[k].normalized_name = k

MentionsOf(k) ==
  Cardinality({o \in Occurrences : normalize_biomarker_name(RawNameOf(o)) = k})
DocumentsOf(k, d) ==
  {DocumentOf(o) :
     o \in {x \in Occurrences :
              /\ normalize_biomarker_name(RawNameOf(x)) = k
              /\ d \in ConditionsOf(x)}}

\* C18: the papers of an (entity, condition) pair are the distinct
\* documents ingested for the pair, however often a combination was
\* ingested, and total_mentions is the number of ingested occurrences of
\* the entity.
DocumentsAreSetsMentionsAreCounts ==
  /\ \A k \in DOMAIN biomarkers :
       /\ biomarkers[k].total_mentions = MentionsOf(k)
       /\ \A d \in DOMAIN biomarkers[k].diseases :
            /\ biomarkers[k].diseases[d].papers = DocumentsOf(k, d)
            /\ Cardinality(biomarkers[k].diseases[d].papers)
                 = Cardinality(DocumentsOf(k, d))
  /\ \A o \in Occurrences :
       LET k == normalize_biomarker_name(RawNameOf(o))
       IN /\ k \in DOMAIN biomarkers
          /\ ConditionsOf(o) \subseteq DOMAIN biomarkers[k].diseases

\* witness of C18: the same (BRCA1, breast cancer, paper1.pdf) combination
\* was ingested three times; one document, three mentions
DocumentsAreSetsMentionsAreCounts_Witness ==
  /\ ingested = <<PaperA, PaperC, PaperA>>
  /\ biomarkers[S_BRCA1].diseases[S_breast_cancer].papers = {"paper1.pdf"}
  /\ biomarkers[S_BRCA1].total_mentions = 3

\* what C19 compares of an index: keys, variants, mention counts and the
\* three sets of every condition
Projection(bm) ==
  [k \in DOMAIN bm |->
     [variants |-> bm[k].variants,
      total_mentions |-> bm[k].total_mentions,
      diseases |-> bm[k].diseases]]

Orders(n) ==
  {p \in [1..n -> 1..n] : \A i, j \in 1..n : p[i] = p[j] => i = j}

\* add_paper_results called for each record of a list, on a given index;
\* as in Python, the index after a record is computed before the next
\* record is taken
RECURSIVE IngestAll(_, _, _)
IngestAll(idx, records, now) ==
  IF records = <<>> THEN idx
  ELSE LET next == add_paper_results(idx, Head(records), now)
       IN IF next = idx /\ Tail(records) = <<>> THEN idx
          ELSE IngestAll(next, Tail(records), now + 1)

\* C19: ingesting the records ingested so far in any other order gives an
\* index with the same keys, variants, mention counts, document sets,
\* association-type sets and evidence-level sets.
AggregationCommutes ==
  \A p \in Orders(Len(ingested)) :
    Projection(IngestAll(EmptyIndex,
                         [i \in 1..Len(ingested) |-> ingested[p[i]]],
                         1).biomarkers)
      = Projection(biomarkers)

\* witness of C19: three different records that meet in one entity and one
\* condition, with different types and evidence levels
AggregationCommutes_Witness ==
  /\ ingested = <<PaperC, PaperB, PaperA>>
  /\ biomarkers[S_BRCA1].variants = {S_brca1, S_BRCA_1, S_BRCA1}
  /\ biomarkers[S_BRCA1].diseases[S_breast_cancer].association_types
       = {"correlative", "causal"}
  /\ bio_order = <<S_BRCA1, <<>>>>

\* C20: after record A and record B the index is the one entity 'BRCA1'
\* with variants 'BRCA1' and 'BRCA-1', two mentions, 'breast cancer' from
\* paper1.pdf and paper2.pdf and 'ovarian cancer' from paper1.pdf, and
\* find_high_confidence_associations(2) is exactly the (BRCA1, breast
\* cancer) pair with confidence 2/10.
EndToEndScenario ==
  ingested = <<PaperA, PaperB>> =>
    /\ DOMAIN biomarkers = {S_BRCA1}
    /\ biomarkers[S_BRCA1].normalized_name = S_BRCA1
    /\ biomarkers[S_BRCA1].variants = {S_BRCA1, S_BRCA_1}
    /\ biomarkers[S_BRCA1].total_mentions = 2
    /\ DOMAIN biomarkers[S_BRCA1].diseases
         = {S_breast_cancer, S_ovarian_cancer}
    /\ biomarkers[S_BRCA1].diseases[S_breast_cancer].papers
         = {"paper1.pdf", "paper2.pdf"}
    /\ biomarkers[S_BRCA1].diseases[S_ovarian_cancer].papers
         = {"paper1.pdf"}
    /\ LET found == find_high_confidence_associations(biomarkers,
                                                      bio_order, 2)
       IN /\ Len(found) = 1
          /\ found[1].biomarker = S_BRCA1
          /\ found[1].disease = S_breast_cancer
          /\ found[1].paper_count = 2
          /\ found[1].confidence_score = [num |-> 2, den |-> 10]

\* witness of C20: record A and then record B were ingested
EndToEndScenario_Witness ==
  /\ ingested = <<PaperA, PaperB>>
  /\ bio_order = <<S_BRCA1>>
  /\ get_biomarker_details(biomarkers, S_brca1).total_mentions = 2
  /\ Len(find_high_confidence_associations(biomarkers, bio_order, 1)) = 2

(***************************************************************************)
(* The readers of the index: get_summary, find_high_confidence_associations*)
(* and export_to_json, called on indexes large enough for the cut at       *)
(* TOP_LIMIT and for the cap of the confidence.  The index of an initial   *)
(* state is the one add_paper_results builds from a list of records.       *)
(***************************************************************************)
MaxEntities == 12         \* the record lists have at most MaxEntities records

FileNames ==
  <<"p01.pdf", "p02.pdf", "p03.pdf", "p04.pdf", "p05.pdf", "p06.pdf",
    "p07.pdf", "p08.pdf", "p09.pdf", "p10.pdf", "p11.pdf", "p12.pdf",
    "p13.pdf", "p14.pdf", "p15.pdf", "p16.pdf">>

S_GENE_PROTEIN_BRCA1 == <<"G", "E", "N", "E", ":", "P", "R", "O", "T", "E", "I", "N", ":", "B", "R", "C", "A", "1">>

\* the i-th record of a list of records about different entities: entity i
\* is mentioned once with its own condition in its own document, or twice,
\* under two spellings, in the document p01.pdf, with its own condition and
\* the condition of entity 1
EntityRecord(i, twice) ==
  IF twice
  THEN [filename |-> FileNames[1],
        biomarkers |-> <<[name |-> <<LowerLetters[i]>>,
                          diseases |-> <<<<"D", LowerLetters[i]>>,
                                         <<"D", LowerLetters[1]>>>>,
                          association_type |-> "causal",
                          evidence_level |-> "clinical_trial"],
                         [name |-> <<UpperLetters[i]>>,
                          diseases |-> <<<<"d", LowerLetters[1]>>>>,
                          association_type |-> "causal",
                          evidence_level |-> "meta_analysis"]>>]
  ELSE [filename |-> FileNames[i],
        biomarkers |-> <<[name |-> <<LowerLetters[i]>>,
                          diseases |-> <<<<"D", LowerLetters[i]>>>>,
                          association_type |-> "causal",
                          evidence_level |-> "clinical_trial"]>>]

\* the i-th record of a list of records from different documents about the
\* same entities: BRCA1 with breast cancer in all of them, with ovarian
\* cancer in every second, and TP53 with ovarian cancer in two of three
CorroboratingRecord(i) ==
  [filename |-> FileNames[i],
   biomarkers |->
     <<[name |-> IF i % 2 = 0 THEN S_BRCA_1 ELSE S_BRCA1,
        diseases |-> IF i % 2 = 0
                     THEN <<S_breast_cancer, S_ovarian_cancer>>
                     ELSE <<S_breast_cancer>>,
        association_type |-> "causal",
        evidence_level |-> "clinical_trial"]>>
     \o (IF i % 3 = 0 THEN <<>>
         ELSE <<[name |-> S_GENE_TP53,
                 diseases |-> <<S_ovarian_cancer>>,
                 association_type |-> "correlative",
                 evidence_level |-> "meta_analysis"]>>)]

\* a record whose entity name carries two type prefixes
PaperP ==
  [filename |-> "paper3.pdf",
   biomarkers |-> <<[name |-> S_GENE_PROTEIN_BRCA1,
                     diseases |-> <<S_breast_cancer>>,
                     association_type |-> "causal",
                     evidence_level |-> "clinical_trial"]>>]

\* three documents: the entity seen first gets a second condition after
\* another entity was seen with its own
LateConditionRecords ==
  LET Record(i, name, disease) ==
        [filename |-> FileNames[i],
         biomarkers |-> <<[name |-> name, diseases |-> <<disease>>,
                           association_type |-> "causal",
                           evidence_level |-> "clinical_trial"]>>]
  IN <<Record(1, S_BRCA1, S_breast_cancer),
       Record(2, S_GENE_TP53, S_ovarian_cancer),
       Record(3, S_BRCA_1, <<"g", "l", "i", "o", "m", "a">>)>>

\* which entities of a list are mentioned twice: those whose number has one
\* of the remainders r modulo m
TwicePatterns ==
  {[m |-> m, r |-> r] : m \in {2, 3}, r \in SUBSET {0, 1, 2}}

RecordLists ==
  UNION {{[i \in 1..n |-> EntityRecord(i, (i % t.m) \in t.r)] :
            t \in TwicePatterns} : n \in 0..MaxEntities}
  \cup {[i \in 1..n |-> CorroboratingRecord(i)] : n \in 0..MaxEntities}
  \cup {<<PaperP>>, <<PaperA, PaperP>>, <<PaperP, PaperB, PaperC>>}
  \cup {SubSeq(LateConditionRecords, 1, n) :
          n \in 1..Len(LateConditionRecords)}

\* the values of min_papers; 3 is the default
MinPapersValues == {0, 1, 2, 3, 5, 12}

ReadInit ==
  /\ ingested \in RecordLists
  /\ LET idx == IngestAll(EmptyIndex, ingested, 1)
     IN biomarkers = idx.biomarkers /\ bio_order = idx.bio_order
  /\ clock = Len(ingested)
  /\ ReaderIdle
  /\ RunnerIdle /\ ReportIdle /\ QVIdle /\ NormIdle /\ ExtIdle

ReaderFrame ==
  UNCHANGED <<biomarkers, bio_order, clock, ingested,
              runner_vars, qv_vars, norm_vars, ext_vars>>

\* what a reader leaves alone besides the index
ReaderOthers ==
  UNCHANGED <<clock, ingested, runner_vars, qv_vars, norm_vars, ext_vars>>

\* self.biomarkers[key] of the defaultdict: a missing key is inserted with
\* the default entity; the index after the access
defaultdict_getitem(bm, order, key) ==
  IF key \in DOMAIN bm THEN [biomarkers |-> bm, bio_order |-> order]
  ELSE [biomarkers |-> (key :> default_entity) @@ bm,
        bio_order |-> Append(order, key)]

\* bio_data['diseases'][disease] of the inner defaultdict: the entity after
\* the access
diseases_getitem(bio_data, disease) ==
  IF disease \in DOMAIN bio_data.diseases THEN bio_data
  ELSE [bio_data EXCEPT !.diseases = (disease :> default_disease) @@ @,
                        !.disease_order = Append(@, disease)]

RECURSIVE read_diseases(_, _)
read_diseases(bio_data, keys) ==
  IF keys = <<>> THEN bio_data
  ELSE read_diseases(diseases_getitem(bio_data, Head(keys)), Tail(keys))

\* the index after get_summary: bio_data['diseases'][disease] is read for
\* every disease of bio_data['diseases'].keys(), for every entity
index_after_summary(bm, order) ==
  [biomarkers |-> [k \in DOMAIN bm |->
                     read_diseases(bm[k], bm[k].disease_order)],
   bio_order |-> order]

\* the index after find_high_confidence_associations: both loops go over
\* .items()
index_after_high_confidence(bm, order) ==
  [biomarkers |-> bm, bio_order |-> order]

\* (mutation of index_after_details: the entity is fetched before the
\* membership test)
index_after_details_FetchesFirst(bm, order, biomarker_name) ==
  defaultdict_getitem(bm, order, normalize_biomarker_name(biomarker_name))

\* the index after get_biomarker_details: self.biomarkers[normalized] is
\* read only past `if normalized not in self.biomarkers: return None`
index_after_details(bm, order, biomarker_name) ==
  LET normalized == normalize_biomarker_name(biomarker_name)
  IN IF normalized \notin DOMAIN bm
     THEN [biomarkers |-> bm, bio_order |-> order]
     ELSE defaultdict_getitem(bm, order, normalized)

\* summary = aggregator.get_summary()
GetSummary ==
  /\ q_call = <<>>
  /\ q_call' = [op |-> "get_summary"]
  /\ q_out' = get_summary(biomarkers, bio_order)
  /\ q_shared' = {}
  /\ LET after == index_after_summary(biomarkers, bio_order)
     IN biomarkers' = after.biomarkers /\ bio_order' = after.bio_order
  /\ ReaderOthers

\* aggregator.find_high_confidence_associations(min_papers)
HighConfidence ==
  /\ q_call = <<>>
  /\ \E min_papers \in MinPapersValues :
       /\ q_call' = [op |-> "find_high_confidence_associations",
                     arg |-> min_papers]
       /\ q_out' = find_high_confidence_associations(biomarkers, bio_order,
                                                     min_papers)
  /\ q_shared' = {}
  /\ LET after == index_after_high_confidence(biomarkers, bio_order)
     IN biomarkers' = after.biomarkers /\ bio_order' = after.bio_order
  /\ ReaderOthers

\* export_data of export_to_json
export_data(bm, order, now) ==
  [metadata |-> [export_date |-> now,
                 total_biomarkers |-> Cardinality(DOMAIN bm)],
   summary |-> get_summary(bm, order),
   biomarkers |-> [name \in DOMAIN bm |-> get_biomarker_details(bm, name)]]

\* export_to_json: the module imports os only under
\* `if __name__ == '__main__'`, so os.makedirs raises NameError, before the
\* file is opened, unless the module runs as the script
export_to_json(bm, order, now, as_main) ==
  IF as_main THEN Return(export_data(bm, order, now))
  ELSE Raise("NameError")

\* aggregator.export_to_json(output_path); q_out is the outcome, with the
\* content of the written file
ExportJson ==
  /\ q_call = <<>>
  /\ \E as_main \in BOOLEAN :
       /\ q_call' = [op |-> "export_to_json", arg |-> as_main]
       /\ q_out' = export_to_json(biomarkers, bio_order, clock + 1, as_main)
  /\ q_shared' = {}
  /\ ReaderFrame

\* the names a reader asks for: the raw names ingested, and others
DetailNames ==
  {ingested[i].biomarkers[j].name :
     <<i, j>> \in
       {x \in UNION {{<<i, j>> :
                        j \in 1..Len(dict_get(ingested[i], "biomarkers", <<>>))} :
                     i \in 1..Len(ingested)} :
          /\ isinstance_dict(ingested[x[1]].biomarkers[x[2]])
          /\ "name" \in DOMAIN ingested[x[1]].biomarkers[x[2]]}}
  \cup {S_brca1, S_GENE_TP53, <<"z", "-", "9">>, <<>>, None}

\* aggregator.get_biomarker_details(biomarker_name)
Details ==
  /\ q_call = <<>>
  /\ \E biomarker_name \in DetailNames :
       /\ q_call' = [op |-> "get_biomarker_details", arg |-> biomarker_name]
       /\ q_out' = get_biomarker_details(biomarkers, biomarker_name)
       /\ q_shared' = details_shared(biomarkers, biomarker_name)
       /\ LET after == index_after_details(biomarkers, bio_order,
                                           biomarker_name)
          IN biomarkers' = after.biomarkers /\ bio_order' = after.bio_order
  /\ ReaderOthers

ReadNext == GetSummary \/ HighConfidence \/ ExportJson \/ Details

SpecRead == ReadInit /\ [][ReadNext]_vars

\* where an entity was first seen: its first counted occurrence in the log
FirstSeenAt(k) ==
  CHOOSE o \in Occurrences :
    /\ normalize_biomarker_name(RawNameOf(o)) = k
    /\ \A x \in Occurrences :
         normalize_biomarker_name(RawNameOf(x)) = k =>
           o[1] < x[1] \/ (o[1] = x[1] /\ o[2] <= x[2])
SeenBefore(k, l) ==
  \/ FirstSeenAt(k)[1] < FirstSeenAt(l)[1]
  \/ FirstSeenAt(k)[1] = FirstSeenAt(l)[1] /\ FirstSeenAt(k)[2] < FirstSeenAt(l)[2]

\* C21: top_biomarkers of the summary has min(10, number of entities)
\* entries, one per listed entity with its total_mentions, in non-increasing
\* order of mentions, equal mentions in first-seen order; an entity left
\* out has fewer mentions than every listed one, or as many as the last
\* and was first seen later.
TopEntitiesByMentions ==
  q_call # <<>> /\ q_call.op = "get_summary" =>
    LET top == q_out.top_biomarkers
        listed == {top[i].name : i \in 1..Len(top)}
    IN /\ Len(top) <= 10
       /\ Len(top) = IF Cardinality(DOMAIN biomarkers) < 10
                     THEN Cardinality(DOMAIN biomarkers) ELSE 10
       /\ \A i \in 1..Len(top) :
            /\ top[i].name \in DOMAIN biomarkers
            /\ top[i].mentions = MentionsOf(top[i].name)
       /\ \A i, j \in 1..Len(top) :
            i < j =>
              /\ top[i].name # top[j].name
              /\ top[i].mentions >= top[j].mentions
              /\ top[i].mentions = top[j].mentions
                   => SeenBefore(top[i].name, top[j].name)
       /\ \A u \in DOMAIN biomarkers \ listed :
            \A l \in listed :
              \/ MentionsOf(u) < MentionsOf(l)
              \/ MentionsOf(u) = MentionsOf(l) /\ SeenBefore(l, u)

\* witness of C21: twelve entities, the summary lists ten, and the cut
\* falls inside a tie: the tenth and an entity left out have one mention
TopEntitiesByMentions_Witness ==
  /\ q_call # <<>> /\ q_call.op = "get_summary"
  /\ Cardinality(DOMAIN biomarkers) = 12
  /\ Len(q_out.top_biomarkers) = 10
  /\ q_out.top_biomarkers[1].mentions = 2
  /\ q_out.top_biomarkers[10].mentions = 1
  /\ \E u \in DOMAIN biomarkers :
       /\ \A i \in 1..10 : q_out.top_biomarkers[i].name # u
       /\ biomarkers[u].total_mentions = 1

\* the conditions of the index, and for a condition the documents that
\* contribute to it and the (entity, document) pairs that do
ConditionsOfIndex == UNION {ConditionsOf(o) : o \in Occurrences}
DocumentsOfCondition(d) ==
  {DocumentOf(o) : o \in {x \in Occurrences : d \in ConditionsOf(x)}}
EntityDocumentsOfCondition(d) ==
  {<<normalize_biomarker_name(RawNameOf(o)), DocumentOf(o)>> :
     o \in {x \in Occurrences : d \in ConditionsOf(x)}}

TopConditionsShape(CountOf(_)) ==
  LET top == q_out.top_diseases
      listed == {top[i].disease : i \in 1..Len(top)}
  IN /\ Len(top) <= 10
     /\ Len(top) = IF Cardinality(ConditionsOfIndex) < 10
                   THEN Cardinality(ConditionsOfIndex) ELSE 10
     /\ \A i \in 1..Len(top) :
          /\ top[i].disease \in ConditionsOfIndex
          /\ top[i].association_count = CountOf(top[i].disease)
     /\ \A i, j \in 1..Len(top) :
          i < j => /\ top[i].disease # top[j].disease
                   /\ top[i].association_count >= top[j].association_count

\* C22 (as claimed): the count of a condition in top_diseases is the number
\* of distinct documents contributing to the condition over the whole
\* index; at most 10 conditions, in non-increasing order of the count.
TopConditionsCountDocuments ==
  q_call # <<>> /\ q_call.op = "get_summary" =>
    LET DistinctDocuments(d) == Cardinality(DocumentsOfCondition(d))
    IN TopConditionsShape(DistinctDocuments)

\* C22 (amended): the count of a condition in top_diseases is the sum, over
\* the entities associated with the condition, of the number of distinct
\* documents contributing to the (entity, condition) pair, so a document
\* counts once for every entity it associates with the condition; at most
\* 10 conditions, in non-increasing order of the count, and a condition left
\* out has no higher count than a listed one.
TopConditionsCountEntityDocuments ==
  q_call # <<>> /\ q_call.op = "get_summary" =>
    LET PairCount(d) == Cardinality(EntityDocumentsOfCondition(d))
        top == q_out.top_diseases
    IN /\ TopConditionsShape(PairCount)
       /\ \A d \in ConditionsOfIndex :
            \A i \in 1..Len(top) :
              (\A j \in 1..Len(top) : top[j].disease # d)
                => PairCount(d) <= top[i].association_count

\* witness of C22: twelve conditions, ten listed, the first with a count of
\* at least 4 although one document contributes to it
TopConditionsCountEntityDocuments_Witness ==
  /\ q_call # <<>> /\ q_call.op = "get_summary"
  /\ Cardinality(ConditionsOfIndex) = 12
  /\ Len(q_out.top_diseases) = 10
  /\ q_out.top_diseases[1].association_count >= 4
  /\ Cardinality(DocumentsOfCondition(q_out.top_diseases[1].disease)) = 1

\* the (entity, condition) pairs of the index with their documents
PairsOfIndex ==
  UNION {{<<k, d>> : d \in DOMAIN biomarkers[k].diseases} :
           k \in DOMAIN biomarkers}

\* C24: find_high_confidence_associations(min_papers) returns the pairs of
\* the index that have at least min_papers documents, all of them and each
\* once, with their number of documents, in non-increasing order of it.
HighConfidenceExactlyThePairs ==
  q_call # <<>> /\ q_call.op = "find_high_confidence_associations" =>
    LET expected == {p \in PairsOfIndex :
                       Cardinality(DocumentsOf(p[1], p[2])) >= q_call.arg}
    IN /\ {<<q_out[i].biomarker, q_out[i].disease>> : i \in 1..Len(q_out)}
            = expected
       /\ Len(q_out) = Cardinality(expected)
       /\ \A i \in 1..Len(q_out) :
            q_out[i].paper_count
              = Cardinality(DocumentsOf(q_out[i].biomarker, q_out[i].disease))
       /\ \A i, j \in 1..Len(q_out) :
            i < j => q_out[i].paper_count >= q_out[j].paper_count

\* witness of C24: with min_papers 3, of the three pairs of the index the
\* two with 5 and 4 documents are returned, and the pair with 2 is not
HighConfidenceExactlyThePairs_Witness ==
  /\ q_call # <<>> /\ q_call.op = "find_high_confidence_associations"
  /\ q_call.arg = 3
  /\ Len(q_out) = 2
  /\ q_out[1].paper_count = 5 /\ q_out[1].disease = S_breast_cancer
  /\ q_out[2].paper_count = 4 /\ q_out[2].biomarker = <<"T", "P", "5", "3">>
  /\ Cardinality(PairsOfIndex) = 3

\* C25: the confidence of a returned association is min(paper_count/10, 1):
\* between 0 and 1, no smaller for a pair with more documents, 1/2 for 5
\* documents and 1 for 12.
ConfidenceIsCappedTenth ==
  q_call # <<>> /\ q_call.op = "find_high_confidence_associations" =>
    /\ \A i \in 1..Len(q_out) :
         LET c == q_out[i].confidence_score
             n == q_out[i].paper_count
         IN /\ c.den > 0
            /\ IF n <= 10 THEN c.num * 10 = n * c.den ELSE c.num = c.den
            /\ 0 <= c.num /\ c.num <= c.den
            /\ n = 5 => 2 * c.num = c.den
            /\ n = 12 => c.num = c.den
    /\ \A i, j \in 1..Len(q_out) :
         q_out[i].paper_count <= q_out[j].paper_count =>
           q_out[i].confidence_score.num * q_out[j].confidence_score.den
             <= q_out[j].confidence_score.num * q_out[i].confidence_score.den

\* witness of C25: a pair with 12 documents was returned with confidence 1,
\* next to a pair with 8 documents and confidence 8/10
ConfidenceIsCappedTenth_Witness ==
  /\ q_call # <<>> /\ q_call.op = "find_high_confidence_associations"
  /\ Len(q_out) >= 2
  /\ q_out[1].paper_count = 12
  /\ q_out[1].confidence_score.num = q_out[1].confidence_score.den
  /\ q_out[2].paper_count = 8
  /\ q_out[2].confidence_score = [num |-> 8, den |-> 10]

IngestedNames == {RawNameOf(o) : o \in Occurrences}

\* C23: get_biomarker_details(name) is None when no entity is stored under
\* the normalized name and else the snapshot of that entity; for an
\* ingested raw name it is the entity that has the name among its variants,
\* and every variant of that entity gives the same snapshot.
DetailsByNormalizedName ==
  q_call # <<>> /\ q_call.op = "get_biomarker_details" =>
    LET k == normalize_biomarker_name(q_call.arg)
    IN /\ k \notin DOMAIN biomarkers => q_out = <<>>
       /\ k \in DOMAIN biomarkers =>
            /\ q_out # <<>>
            /\ q_out.normalized_name = k
            /\ q_out.name_variants = biomarkers[k].variants
            /\ q_out.total_mentions = biomarkers[k].total_mentions
            /\ {q_out.disease_associations[i].disease :
                  i \in 1..Len(q_out.disease_associations)}
                 = DOMAIN biomarkers[k].diseases
            /\ \A i \in 1..Len(q_out.disease_associations) :
                 q_out.disease_associations[i].papers
                   = DocumentsOf(k, q_out.disease_associations[i].disease)
       /\ q_call.arg \in IngestedNames =>
            /\ q_out # <<>>
            /\ q_call.arg \in q_out.name_variants
            /\ \A v \in q_out.name_variants :
                 get_biomarker_details(biomarkers, v) = q_out

\* witness of C23: 'brca1' was asked for after 'BRCA1' and 'BRCA-1' were
\* ingested, and the entity with these two variants was returned
DetailsByNormalizedName_Witness ==
  /\ q_call # <<>> /\ q_call.op = "get_biomarker_details"
  /\ q_call.arg = S_brca1
  /\ q_out # <<>>
  /\ q_out.name_variants = {S_BRCA1, S_BRCA_1}
  /\ q_out.total_mentions >= 2

\* C26 (as claimed): export_to_json produces, in every index state, a map
\* with one entry per key of the index, the entry under k being the
\* snapshot of the entity whose normalized_name is k, with paper_count the
\* number of listed papers, together with the summary.
ExportIsTheIndex ==
  q_call # <<>> /\ q_call.op = "export_to_json" =>
    /\ q_out.kind = "return"
    /\ DOMAIN q_out.value.biomarkers = DOMAIN biomarkers
    /\ \A k \in DOMAIN biomarkers :
         LET entry == q_out.value.biomarkers[k]
         IN /\ entry # <<>>
            /\ entry.normalized_name = k
            /\ entry.name_variants = biomarkers[k].variants
            /\ entry.total_mentions = biomarkers[k].total_mentions
            /\ \A i \in 1..Len(entry.disease_associations) :
                 entry.disease_associations[i].paper_count
                   = Cardinality(entry.disease_associations[i].papers)
    /\ q_out.value.summary = get_summary(biomarkers, bio_order)

(***************************************************************************)
(* A reader that keeps what get_biomarker_details or export_to_json gave   *)
(* it while the aggregator goes on ingesting, and that modifies the dict   *)
(* it was given.                                                           *)
(***************************************************************************)
MaxSnapIngest == 2        \* add_paper_results calls in a run with a reader

\* aggregator.add_paper_results(paper_result), before or after the reader's
\* call
IngestSnap ==
  /\ Len(ingested) < MaxSnapIngest
  /\ Ingest

\* what the reader adds to the list it was given
ReaderItem == <<"x">>

\* details['name_variants'].append(...) by the reader; a list that is an
\* object of the index changes there as well
ModifySnapshot ==
  /\ q_call # <<>>
  /\ q_call.op = "get_biomarker_details"
  /\ q_out # <<>>
  /\ ReaderItem \notin q_out.name_variants
  /\ q_out' = [q_out EXCEPT !.name_variants = @ \cup {ReaderItem}]
  /\ biomarkers' =
       IF "name_variants" \in q_shared
       THEN [biomarkers EXCEPT
               ![normalize_biomarker_name(q_call.arg)].variants =
                  @ \cup {ReaderItem}]
       ELSE biomarkers
  /\ UNCHANGED <<q_call, q_shared, bio_order, clock, ingested>>
  /\ UNCHANGED <<runner_vars, qv_vars, norm_vars, ext_vars>>

SnapNext == IngestSnap \/ Details \/ ExportJson \/ ModifySnapshot

SpecSnap == AggInit /\ [][SnapNext]_vars

MaxResults == 2           \* main's list has 1..MaxResults records

ScoreV(k) == [k |-> "float", len |-> 0, txt |-> "sevenths", val |-> k]

\* the records a worker returns: a parsed summary, or a failure record
ResultRecords ==
  [status : {"success"},
   key_findings : {Missing, ListV(2)},
   biomarkers : {Missing, NoneV, ListV(2)},
   quality_score : {Missing, ScoreV(0), ScoreV(3), ScoreV(7)},
   num_biomarkers : {Missing}]
  \cup
  [status : {"api_error", "processing_error"},
   key_findings : {Missing}, biomarkers : {Missing},
   quality_score : {Missing}, num_biomarkers : {Missing}]

\* end_time - start_time; not positive only if the clock was set back
DurationValues == {-1, 0, 30}

\* ' | '.join(list) of findings of 7 characters each
join_findings(v) ==
  StrV(IF v.len = 0 THEN 0 ELSE 7 * v.len + 3 * (v.len - 1))

\* json.dumps(list) of items that take 17 characters each: a str
json_dumps(v) ==
  [k |-> "str", len |-> IF v.len = 0 THEN 2 ELSE 17 * v.len + 2 * v.len,
   txt |-> "json", val |-> 0]

\* isinstance(x, list)
isinstance_list(x) == x.k = "list"

\* the body of `for result in results` in save_results_to_csv: the dict
\* `result` after it
csv_result(result) ==
  LET joined ==
        IF result.key_findings.k # "missing"
             /\ isinstance_list(result.key_findings)
        THEN [result EXCEPT !.key_findings = join_findings(@)]
        ELSE result
  IN IF joined.biomarkers.k # "missing" /\ isinstance_list(joined.biomarkers)
     THEN [joined EXCEPT !.num_biomarkers = IntV(joined.biomarkers.len),
                         !.biomarkers = json_dumps(@)]
     ELSE [joined EXCEPT !.num_biomarkers = IntV(0)]

\* row = {field: result.get(field, '') for field in fieldnames}
csv_row(result) ==
  [field \in {"key_findings", "biomarkers", "quality_score",
              "num_biomarkers"} |-> get(result, field, StrV(0))]
  @@ [status |-> result.status]

\* (mutation of successful: every record is counted)
successful_CountsAll(rs) == Len(rs)

\* sum(1 for r in results if r.get('status') == 'success')
successful(rs) ==
  Cardinality({i \in 1..Len(rs) : rs[i].status = "success"})

RECURSIVE sum_val(_)
sum_val(s) == IF s = <<>> THEN 0 ELSE Head(s).val + sum_val(Tail(s))
RECURSIVE sum_len(_)
sum_len(s) == IF s = <<>> THEN 0 ELSE Head(s).len + sum_len(Tail(s))

IsSuccess(r) == r.status = "success"
ScoredSuccess(r) ==
  r.status = "success" /\ Truthy(get(r, "quality_score", IntV(0)))

\* quality_scores of track_metrics
quality_scores(rs) ==
  LET kept == SelectSeq(rs, ScoredSuccess)
  IN [i \in 1..Len(kept) |-> get(kept[i], "quality_score", IntV(0))]

\* np.mean(quality_scores) if quality_scores else 0, the scores being
\* sevenths
avg_quality(rs) ==
  LET scores == quality_scores(rs)
  IN IF scores = <<>> THEN [num |-> 0, den |-> 1]
     ELSE [num |-> sum_val(scores), den |-> 7 * Len(scores)]

\* track_metrics: the metrics dict, or the TypeError of len() of a value
\* of 'biomarkers' that has no length
track_metrics(rs, dur) ==
  LET succeeded == SelectSeq(rs, IsSuccess)
      counted == [i \in 1..Len(succeeded) |->
                    get(succeeded[i], "biomarkers", ListV(0))]
  IN IF \E i \in 1..Len(counted) : ~HasLen(counted[i])
     THEN Raise("TypeError")
     ELSE Return(
            [total_papers |-> Len(rs),
             successful |-> successful(rs),
             failed |-> Len(rs) - successful(rs),
             duration_seconds |-> dur,
             papers_per_minute |->
               IF dur > 0 THEN [num |-> Len(rs) * 60, den |-> dur]
               ELSE [num |-> 0, den |-> 1],
             average_quality_score |-> avg_quality(rs),
             total_biomarkers_extracted |-> sum_len(counted)])

ReportInit ==
  /\ rep_pc = "csv"
  /\ rep_results \in UNION {[1..n -> ResultRecords] : n \in 1..MaxResults}
  /\ worker_results = rep_results
  /\ csv_rows = <<>>
  /\ json_file = <<>>
  /\ duration \in DurationValues
  /\ metrics = <<>>
  /\ RunnerIdle /\ QVIdle /\ NormIdle /\ ExtIdle /\ AggIdle

ReportFrame == UNCHANGED <<pool_vars, qv_vars, norm_vars, ext_vars, agg_vars>>

\* save_results_to_csv(results, csv_path)
SaveCsv ==
  /\ rep_pc = "csv"
  /\ rep_results' = [i \in 1..Len(rep_results) |-> csv_result(rep_results[i])]
  /\ csv_rows' = [i \in 1..Len(rep_results) |-> csv_row(rep_results'[i])]
  /\ rep_pc' = "json"
  /\ UNCHANGED <<worker_results, json_file, duration, metrics>>
  /\ ReportFrame

\* json.dump(results, f, indent=2)
DumpJson ==
  /\ rep_pc = "json"
  /\ json_file' = rep_results
  /\ rep_pc' = "metrics"
  /\ UNCHANGED <<rep_results, worker_results, csv_rows, duration, metrics>>
  /\ ReportFrame

\* metrics = track_metrics(results, start_time, end_time, provider)
TrackMetrics ==
  /\ rep_pc = "metrics"
  /\ metrics' = track_metrics(rep_results, duration)
  /\ rep_pc' = "done"
  /\ UNCHANGED <<rep_results, worker_results, csv_rows, json_file, duration>>
  /\ ReportFrame

ReportNext == SaveCsv \/ DumpJson \/ TrackMetrics

SpecReport == ReportInit /\ [][ReportNext]_vars

Succeeded == {i \in 1..Len(worker_results) : IsSuccess(worker_results[i])}

\* C28: the metrics track_metrics computes have total_papers the number of
\* results, successful the number of results with status 'success' and
\* failed the rest, so the two add up to the number of results; and
\* papers_per_minute is 0 when the duration is not positive.
MetricsCountsAddUp ==
  rep_pc = "done" /\ metrics.kind = "return" =>
    LET m == metrics.value
    IN /\ m.total_papers = Len(worker_results)
       /\ m.successful = Cardinality(Succeeded)
       /\ m.failed = m.total_papers - m.successful
       /\ m.successful + m.failed = Len(worker_results)
       /\ duration <= 0 => m.papers_per_minute.num = 0
       /\ duration > 0 =>
            m.papers_per_minute.num * duration
              = 60 * Len(worker_results) * m.papers_per_minute.den

\* witness of C28: metrics of a succeeded and a failed result, with a
\* duration that is not positive
MetricsCountsAddUp_Witness ==
  /\ rep_pc = "done" /\ metrics.kind = "return"
  /\ metrics.value.successful = 1
  /\ metrics.value.failed = 1
  /\ duration <= 0
  /\ metrics.value.papers_per_minute.num = 0

RECURSIVE ScoreSum(_)
ScoreSum(S) ==
  IF S = {} THEN 0
  ELSE LET i == CHOOSE i \in S : TRUE
       IN get(worker_results[i], "quality_score", IntV(0)).val
          + ScoreSum(S \ {i})

\* C29 (as claimed): average_quality_score is the mean of the quality score
\* over all results with status 'success', each counted once, and 0 when
\* there is none.
AverageOverSucceeded ==
  rep_pc = "done" /\ metrics.kind = "return" =>
    LET avg == metrics.value.average_quality_score
    IN IF Succeeded = {} THEN avg.num = 0
       ELSE avg.num * 7 * Cardinality(Succeeded) = ScoreSum(Succeeded) * avg.den

\* C30 (as claimed): after the workers returned them, the records of
\* main's list keep every field, and the list dumped to the results file
\* is that of the workers.
ResultsKeptAsReturned ==
  /\ rep_pc # "idle" => rep_results = worker_results
  /\ rep_pc \in {"metrics", "done"} => json_file = worker_results

(***************************************************************************)
(* Further properties of the batch runner.                                 *)
(***************************************************************************)

\* C34: whatever the attempts of a unit do, its worker is invoked at most
\* stop_after_attempt (3) times during a batch run, and a unit whose worker
\* returned a record (of a success or of a failure) without ever raising
\* was invoked exactly once.
AtMostThreeInvocations ==
  \A u \in pdf_files :
    /\ attempt_number[u] <= stop_after_attempt
    /\ ended[u] <= attempt_number[u]
    /\ (raised[u] = 0 /\ returned[u] # "none") =>
         /\ attempt_number[u] = 1
         /\ ended[u] = 1
         /\ future[u].kind = "result"

\* witness of C34: the batch is over; one unit was invoked three times and
\* raised each time, another returned a failure record on its only invocation
AtMostThreeInvocations_Witness ==
  /\ main_pc = "done"
  /\ \E u, v \in pdf_files :
       /\ attempt_number[u] = stop_after_attempt
       /\ raised[u] = stop_after_attempt
       /\ raised[v] = 0
       /\ returned[v] = "api_error"
       /\ attempt_number[v] = 1

\* the number of entity associations the worker emitted in a result
EmittedAssociations(r) ==
  IF isinstance_list(r.biomarkers) THEN r.biomarkers.len ELSE 0

RECURSIVE EmittedSum(_)
EmittedSum(S) ==
  IF S = {} THEN 0
  ELSE LET i == CHOOSE i \in S : TRUE
       IN EmittedAssociations(worker_results[i]) + EmittedSum(S \ {i})

\* C35 (as claimed): at the end of main, total_biomarkers_extracted of the
\* metrics is the sum, over the succeeded results, of the number of entity
\* associations the worker emitted for the document.
TotalMentionsAreEmittedAssociations ==
  rep_pc = "done" /\ metrics.kind = "return" =>
    metrics.value.total_biomarkers_extracted = EmittedSum(Succeeded)

(***************************************************************************)
(* Further properties of the readers of the index.                         *)
(***************************************************************************)

\* where a condition was observed first: the record, the item of the
\* record and the place in the item's list of conditions
ConditionSightings(d) ==
  {<<o[1], o[2], n>> :
     <<o, n>> \in
       {x \in Occurrences \X (1..MaxEntities) :
          LET ds == dict_get(ingested[x[1][1]].biomarkers[x[1][2]],
                             "diseases", <<>>)
          IN x[2] <= Len(ds) /\ truthy_str(ds[x[2]]) /\ lower(ds[x[2]]) = d}}

Earlier(a, b) ==
  \/ a[1] < b[1]
  \/ a[1] = b[1] /\ a[2] < b[2]
  \/ a[1] = b[1] /\ a[2] = b[2] /\ a[3] < b[3]

ConditionSeenBefore(d, e) ==
  \E a \in ConditionSightings(d) :
    \A b \in ConditionSightings(e) : Earlier(a, b)

\* C36 (as claimed): among the conditions of top_diseases with equal
\* counts, the condition first observed earlier in the sequence of ingested
\* records is listed first.
TopConditionsTiesFirstSeen ==
  q_call # <<>> /\ q_call.op = "get_summary" =>
    LET top == q_out.top_diseases
    IN \A i, j \in 1..Len(top) :
         (i < j /\ top[i].association_count = top[j].association_count)
           => ConditionSeenBefore(top[i].disease, top[j].disease)

ReadOperations ==
  {"get_summary", "get_biomarker_details", "find_high_confidence_associations"}

\* C37: get_summary, get_biomarker_details and
\* find_high_confidence_associations leave the index as it was, whatever its
\* state; and looking up a name whose canonical key is not in the index
\* returns None (not found) and creates neither an entity nor a condition.
ReadersLeaveIndexUnchanged ==
  [][(q_call' # q_call /\ q_call'.op \in ReadOperations) =>
       /\ biomarkers' = biomarkers
       /\ bio_order' = bio_order
       /\ (/\ q_call'.op = "get_biomarker_details"
           /\ normalize_biomarker_name(q_call'.arg) \notin DOMAIN biomarkers)
            => /\ q_out' = <<>>
               /\ DOMAIN biomarkers' = DOMAIN biomarkers]_vars

\* witness of C37: an index with entities was asked for a name whose key it
\* does not hold, and answered None
ReadersLeaveIndexUnchanged_Witness ==
  /\ q_call # <<>> /\ q_call.op = "get_biomarker_details"
  /\ Cardinality(DOMAIN biomarkers) >= 2
  /\ normalize_biomarker_name(q_call.arg) \notin DOMAIN biomarkers
  /\ q_out = <<>>

(***************************************************************************)
(* A further property of the index under add_paper_results.                *)
(***************************************************************************)

\* C38: in every reachable state of the index, every entity has at least
\* one mention and one variant, every condition of an entity has at least
\* one contributing document, one association type and one evidence level,
\* the documents of a condition are at most as many as the mentions of its
\* entity, and so are the variants of the entity.
EntitiesAreWellFormed ==
  \A k \in DOMAIN biomarkers :
    LET e == biomarkers[k]
    IN /\ e.total_mentions >= 1
       /\ e.variants # {}
       /\ Cardinality(e.variants) <= e.total_mentions
       /\ \A d \in DOMAIN e.diseases :
            /\ e.diseases[d].papers # {}
            /\ e.diseases[d].association_types # {}
            /\ e.diseases[d].evidence_levels # {}
            /\ Cardinality(e.diseases[d].papers) <= e.total_mentions

\* witness of C38: an entity mentioned twice under two spellings, one of
\* its conditions supported by as many documents as it has mentions
EntitiesAreWellFormed_Witness ==
  \E k \in DOMAIN biomarkers :
    /\ biomarkers[k].total_mentions = 2
    /\ Cardinality(biomarkers[k].variants) = 2
    /\ \E d \in DOMAIN biomarkers[k].diseases :
         Cardinality(biomarkers[k].diseases[d].papers)
           = biomarkers[k].total_mentions

(***************************************************************************)
(* The batch runner with its scheduling: main runs on, an idle pool thread *)
(* takes the head of the queue, an invocation of the worker ends (the      *)
(* assumption of the termination property), a backoff sleep is over after  *)
(* at most 10 seconds, and as_completed hands over every finished future.  *)
(***************************************************************************)
Fairness ==
  /\ WF_vars(Submit)
  /\ \A u \in pdf_files :
       /\ WF_vars(\E t \in 1..MaxWorkersBound : WorkerTake(u, t))
       /\ WF_vars(\E ext \in ExtInputs, io \in IoInputs, resp \in RespInputs :
                     AttemptEnd(u, ext, io, resp))
       /\ WF_vars(BackoffEnd(u))
       /\ WF_vars(Collect(u))

SpecLive == Init /\ [][Next]_vars /\ Fairness

\* the unit failed: its worker returned a failure record or raised on
\* every attempt
UnitFailed(u) ==
  \/ future[u].kind = "exception"
  \/ future[u].kind = "result" /\ future[u].value.status # "success"

WORKERS_MIN == 1          \* DEFAULT_WORKERS < 1
WORKERS_MAX == 20         \* DEFAULT_WORKERS > 20

WorkerCounts == {WORKERS_MIN - 1, WORKERS_MIN, WORKERS_MAX, WORKERS_MAX + 1}

\* settings that pass every other check, and settings that fail some
ValidSettings ==
  [DEFAULT_PROVIDER |-> "anthropic", ANTHROPIC_API_KEY |-> "key",
   OPENAI_API_KEY |-> "", papers_dir_exists |-> TRUE, TEMPERATURE |-> 3,
   CLOUD_PROVIDER |-> "local", AWS_S3_BUCKET |-> "",
   AZURE_STORAGE_CONNECTION_STRING |-> ""]
OtherSettings ==
  {ValidSettings,
   [ValidSettings EXCEPT !.ANTHROPIC_API_KEY = "",
                         !.papers_dir_exists = FALSE],
   [ValidSettings EXCEPT !.DEFAULT_PROVIDER = "openai", !.TEMPERATURE = 11,
                         !.CLOUD_PROVIDER = "aws"],
   [ValidSettings EXCEPT !.TEMPERATURE = -1, !.CLOUD_PROVIDER = "azure"]}

Configs ==
  {[DEFAULT_WORKERS |-> w] @@ o : w \in WorkerCounts, o \in OtherSettings}

\* errors.append(...) when the condition holds
append_if(errors, condition, error) ==
  IF condition THEN Append(errors, error) ELSE errors

\* validate_config: the list of errors, each named by its setting
validate_config(cfg) ==
  LET e1 == append_if(<<>>, cfg.DEFAULT_PROVIDER = "anthropic"
                              /\ cfg.ANTHROPIC_API_KEY = "",
                      "ANTHROPIC_API_KEY")
      e2 == append_if(e1, cfg.DEFAULT_PROVIDER = "openai"
                            /\ cfg.OPENAI_API_KEY = "",
                      "OPENAI_API_KEY")
      e3 == append_if(e2, ~cfg.papers_dir_exists, "DEFAULT_PAPERS_DIR")
      e4 == append_if(e3, cfg.DEFAULT_WORKERS < WORKERS_MIN
                            \/ cfg.DEFAULT_WORKERS > WORKERS_MAX,
                      "MAX_WORKERS")
      e5 == append_if(e4, ~(0 <= cfg.TEMPERATURE /\ cfg.TEMPERATURE <= 10),
                      "TEMPERATURE")
      e6 == append_if(e5, cfg.CLOUD_PROVIDER = "aws" /\ cfg.AWS_S3_BUCKET = "",
                      "AWS_S3_BUCKET")
  IN append_if(e6, cfg.CLOUD_PROVIDER = "azure"
                     /\ cfg.AZURE_STORAGE_CONNECTION_STRING = "",
               "AZURE_STORAGE_CONNECTION_STRING")

\* main up to ThreadPoolExecutor(max_workers=max_workers): where main is
\* after it.  main returns when the provider is unknown, the key is not set
\* or the directory does not exist; the constructor of the pool raises
\* ValueError when max_workers <= 0; nothing else looks at max_workers
main_prologue(cfg, workers) ==
  IF cfg.DEFAULT_PROVIDER \notin {"anthropic", "openai"} THEN "returned"
  ELSE IF (IF cfg.DEFAULT_PROVIDER = "anthropic" THEN cfg.ANTHROPIC_API_KEY
           ELSE cfg.OPENAI_API_KEY) = "" THEN "returned"
  ELSE IF ~cfg.papers_dir_exists THEN "returned"
  ELSE IF workers <= 0 THEN "raised"
  ELSE "submit"

\* the pool before main has created it
PoolFresh ==
  /\ submitted = 0
  /\ work_queue = <<>>
  /\ thread_of = [u \in pdf_files |-> 0]
  /\ ustate = [u \in pdf_files |-> "unsubmitted"]
  /\ attempt_number = [u \in pdf_files |-> 0]
  /\ ended = [u \in pdf_files |-> 0]
  /\ raised = [u \in pdf_files |-> 0]
  /\ last_exc = [u \in pdf_files |-> "none"]
  /\ returned = [u \in pdf_files |-> "none"]
  /\ future = [u \in pdf_files |-> NoFuture]
  /\ results = <<>>

\* a run with the configured settings: the worker count of the settings is
\* the one main is given
ConfigInit ==
  /\ cfg_pc = "validate"
  /\ config \in Configs
  /\ cfg_errors = <<>>
  /\ max_workers = config.DEFAULT_WORKERS
  /\ main_pc = "start"
  /\ PoolFresh
  /\ ReportIdle /\ QVIdle /\ NormIdle /\ AggIdle /\ GuiIdle /\ LamIdle

\* errors = validate_config()
ValidateConfig ==
  /\ cfg_pc = "validate"
  /\ cfg_errors' = validate_config(config)
  /\ cfg_pc' = "validated"
  /\ UNCHANGED <<config, gui_vars, lam_vars>>
  /\ UNCHANGED <<runner_vars, qv_vars, norm_vars, agg_vars>>

\* main(papers_dir, output_dir, max_workers, provider, use_langchain) up to
\* the creation of the pool
MainStart ==
  /\ cfg_pc = "validated"
  /\ main_pc = "start"
  /\ main_pc' = main_prologue(config, max_workers)
  /\ UNCHANGED <<max_workers, submitted, work_queue, thread_of, ustate,
                 attempt_number, ended, raised, last_exc, returned, future,
                 results>>
  /\ RunnerFrame

ConfigNext == ValidateConfig \/ MainStart \/ Next

SpecConfig == ConfigInit /\ [][ConfigNext]_vars

\* C31 (as claimed): a worker count outside [1, 20] is a configuration
\* error found before any unit starts: validate_config reports the error
\* exactly when the count is below 1 or above 20, and a run of main given
\* such a count starts no unit of work.
ConcurrencyOutsideRangeStartsNothing ==
  /\ cfg_pc = "validated" =>
       ((\E i \in 1..Len(cfg_errors) : cfg_errors[i] = "MAX_WORKERS")
          <=> (config.DEFAULT_WORKERS < WORKERS_MIN
                 \/ config.DEFAULT_WORKERS > WORKERS_MAX))
  /\ max_workers \notin WORKERS_MIN..WORKERS_MAX =>
       /\ submitted = 0
       /\ \A u \in pdf_files : attempt_number[u] = 0

(***************************************************************************)
(* The GUI of scripts/windows_app.py around a batch run: start_processing  *)
(* starts run_pipeline in a thread, run_pipeline calls main, and the stop  *)
(* button calls stop_processing while the run lasts.                       *)
(***************************************************************************)

\* main(papers_dir=..., ..., check_pubmed=..., pubmed_query=...,
\* user_email=..., cloud_provider=...) as run_pipeline calls it: the main
\* that takes these arguments validates them and goes on to the pool
gui_main_call == "submit"

StopInit ==
  /\ max_workers \in 1..MaxWorkersBound
  /\ main_pc = "start"
  /\ PoolFresh
  /\ GuiIdle
  /\ ReportIdle /\ QVIdle /\ NormIdle /\ AggIdle /\ CfgIdle /\ LamIdle

GuiFrame ==
  /\ UNCHANGED <<max_workers, submitted, work_queue, thread_of, ustate,
                 attempt_number, ended, raised, last_exc, returned, future,
                 results>>
  /\ UNCHANGED <<report_vars, qv_vars, norm_vars, agg_vars, cfg_vars,
                 lam_vars>>

\* start_processing with valid inputs, up to the call of main in the thread
StartProcessing ==
  /\ main_pc = "start"
  /\ stop_button = "disabled"
  /\ processing' = TRUE
  /\ stop_button' = "normal"
  /\ main_pc' = gui_main_call
  /\ GuiFrame

\* stop_processing: the command of the stop button
StopProcessing ==
  /\ stop_button = "normal"
  /\ processing' = FALSE
  /\ UNCHANGED <<stop_button, main_pc>>
  /\ GuiFrame

\* the finally block of run_pipeline, after main has returned
RunPipelineFinally ==
  /\ main_pc = "done"
  /\ stop_button = "normal"
  /\ stop_button' = "disabled"
  /\ processing' = FALSE
  /\ UNCHANGED main_pc
  /\ GuiFrame

StopNext == StartProcessing \/ StopProcessing \/ RunPipelineFinally \/ Next

SpecStop == StopInit /\ [][StopNext]_vars

\* a stop was requested and the run is not over
StopRequested == ~processing /\ stop_button = "normal"

NotStarted(state) == state \in {"unsubmitted", "queued"}

MaxRecords == 2           \* an event has 1..MaxRecords records

StageOutcomes ==
  {r \in [body : {"ok", "bad"},           \* json.loads, ['bucket'], ['key']
          download : {"ok", "fail"},      \* download_from_s3, after retries
          extraction : {"ok", "fail"},    \* extract_text_from_pdf
          text_upload : {"ok", "fail"},   \* upload_to_s3 of the text
          llm : {"ok", "chain_error", "init_error"},
          results_upload : {"ok", "fail"}] :
     /\ r.body = "bad" =>
          r.download = "ok" /\ r.extraction = "ok" /\ r.text_upload = "ok"
            /\ r.llm = "ok" /\ r.results_upload = "ok"
     /\ r.download = "fail" =>
          r.extraction = "ok" /\ r.text_upload = "ok" /\ r.llm = "ok"
            /\ r.results_upload = "ok"
     /\ r.extraction = "fail" =>
          r.text_upload = "ok" /\ r.llm = "ok" /\ r.results_upload = "ok"
     /\ r.llm = "init_error" => r.results_upload = "ok"}

\* LangChainPaperProcessor.process_paper: every exception of the chain is
\* caught and returned as a record of status 'error'
process_paper(llm) ==
  IF llm = "ok" THEN [status |-> "success"] ELSE [status |-> "error"]

\* process_paper_with_langchain: the constructor of the processor is
\* outside the try of process_paper
process_paper_with_langchain(llm) ==
  IF llm = "init_error" THEN Raise("ValueError")
  ELSE Return(process_paper(llm))

\* lambda_handler for the paper of a record: the response's statusCode and
\* the status of the result written to the results bucket, if one was
lambda_handler(record) ==
  IF record.download = "fail"
  THEN [statusCode |-> 500, uploaded |-> "none"]
  ELSE IF record.extraction = "fail"
  THEN [statusCode |-> 500, uploaded |-> "none"]
  ELSE LET result == process_paper_with_langchain(record.llm)
       IN IF result.kind = "raise"
          THEN [statusCode |-> 500, uploaded |-> "none"]
          ELSE IF record.results_upload = "fail"
          THEN [statusCode |-> 500, uploaded |-> "none"]
          ELSE [statusCode |-> 200, uploaded |-> result.value.status]

\* one round of `for record in event['Records']`: batch_item_failures
\* after it
batch_round(failures, record) ==
  IF record.body = "bad"
  THEN Append(failures, [itemIdentifier |-> record.messageId])
  ELSE IF lambda_handler(record).statusCode # 200
  THEN Append(failures, [itemIdentifier |-> record.messageId])
  ELSE failures

BatchInit ==
  /\ lam_pc = "loop"
  /\ lam_event \in
       UNION {{[i \in 1..n |-> [messageId |-> i] @@ f[i]] :
                 f \in [1..n -> StageOutcomes]} : n \in 1..MaxRecords}
  /\ lam_i = 0
  /\ batch_item_failures = <<>>
  /\ lam_uploaded = {}
  /\ RunnerIdle /\ ReportIdle /\ QVIdle /\ NormIdle /\ AggIdle
  /\ CfgIdle /\ GuiIdle

BatchFrame ==
  UNCHANGED <<runner_vars, qv_vars, norm_vars, agg_vars, cfg_vars, gui_vars>>

\* the body of the loop of batch_handler for the next record
HandleRecord ==
  /\ lam_pc = "loop"
  /\ lam_i < Len(lam_event)
  /\ LET record == lam_event[lam_i + 1]
     IN /\ batch_item_failures' = batch_round(batch_item_failures, record)
        /\ lam_uploaded' =
             IF record.body = "ok" /\ lambda_handler(record).uploaded # "none"
             THEN lam_uploaded
                    \cup {[messageId |-> record.messageId,
                           status |-> lambda_handler(record).uploaded]}
             ELSE lam_uploaded
  /\ lam_i' = lam_i + 1
  /\ UNCHANGED <<lam_pc, lam_event>>
  /\ BatchFrame

\* return {'batchItemFailures': batch_item_failures}
BatchReturn ==
  /\ lam_pc = "loop"
  /\ lam_i = Len(lam_event)
  /\ lam_pc' = "returned"
  /\ UNCHANGED <<lam_event, lam_i, batch_item_failures, lam_uploaded>>
  /\ BatchFrame

BatchNext == HandleRecord \/ BatchReturn

SpecBatch == BatchInit /\ [][BatchNext]_vars

\* the paper of the record was processed: the message was parsed, and the
\* download, the text extraction, the LLM processing and the upload of the
\* result succeeded
Processed(record) ==
  /\ record.body = "ok"
  /\ record.download = "ok"
  /\ record.extraction = "ok"
  /\ record.llm = "ok"
  /\ record.results_upload = "ok"

\* C39 (as claimed): batchItemFailures holds exactly the messageIds of the
\* records whose paper was not processed successfully, each once, and every
\* record of the batch was handled whatever happened to the ones before.
BatchFailuresAreTheUnprocessed ==
  lam_pc = "returned" =>
    /\ lam_i = Len(lam_event)
    /\ {batch_item_failures[i].itemIdentifier :
          i \in 1..Len(batch_item_failures)}
         = {lam_event[i].messageId :
              i \in {j \in 1..Len(lam_event) : ~Processed(lam_event[j])}}
    /\ \A i, j \in 1..Len(batch_item_failures) :
         i # j => batch_item_failures[i] # batch_item_failures[j]
====
